---------------------------- MODULE Spec2Model ----------------------------
(***************************************************************************)
(* Model of the PiKVM HID bridge firmware (hid/pico, hid/arduino): the    *)
(* link protocol engine (8-byte frames, CRC-16, dispatch, responses,       *)
(* timeout resynchronisation, REPEAT), the persisted output-role record,   *)
(* and the USB keyboard/mouse backend of the Pico firmware.                *)
(*                                                                         *)
(* Bytes are integers 0..255, 16-bit words integers 0..65535.  C arrays    *)
(* are sequences, so data[i] of the source is data[i+1] here.              *)
(***************************************************************************)
EXTENDS Integers, Sequences, FiniteSets, TLC

(***************************************************************************)
(* Protocol constants (ph_proto.h / proto.h).                              *)
(***************************************************************************)
PH_PROTO_MAGIC == 51                    \* 0x33
PH_PROTO_MAGIC_RESP == 52               \* 0x34
PH_PROTO_RESP_NONE == 36                \* 0x24
PH_PROTO_RESP_CRC_ERROR == 64           \* 0x40
PH_PROTO_RESP_INVALID_ERROR == 69       \* 0x45
PH_PROTO_RESP_TIMEOUT_ERROR == 72       \* 0x48
PH_PROTO_PONG_OK == 128                 \* 0b10000000
PH_PROTO_PONG_CAPS == 1
PH_PROTO_PONG_SCROLL == 2
PH_PROTO_PONG_NUM == 4
PH_PROTO_PONG_KBD_OFFLINE == 8
PH_PROTO_PONG_MOUSE_OFFLINE == 16
PH_PROTO_PONG_RESET_REQUIRED == 64
PH_PROTO_OUT1_DYNAMIC == 128
PH_PROTO_OUT1_KBD_MASK == 7
PH_PROTO_OUT1_KBD_USB == 1
PH_PROTO_OUT1_KBD_PS2 == 3
PH_PROTO_OUT1_MOUSE_MASK == 56          \* 0b00111000
PH_PROTO_OUT1_MOUSE_USB_ABS == 8
PH_PROTO_OUT1_MOUSE_USB_REL == 16
PH_PROTO_OUT1_MOUSE_PS2 == 24
PH_PROTO_OUT1_MOUSE_USB_W98 == 32
PH_PROTO_OUT2_HAS_USB == 1
PH_PROTO_OUT2_HAS_PS2 == 2
PH_PROTO_OUT2_HAS_USB_W98 == 4
PH_PROTO_CMD_PING == 1
PH_PROTO_CMD_REPEAT == 2
PH_PROTO_CMD_SET_KBD == 3
PH_PROTO_CMD_SET_MOUSE == 4
PH_PROTO_CMD_SET_CONNECTED == 5
PH_PROTO_CMD_CLEAR_HID == 16            \* 0x10
PH_PROTO_CMD_KBD_KEY == 17              \* 0x11
PH_PROTO_CMD_MOUSE_ABS == 18            \* 0x12
PH_PROTO_CMD_MOUSE_BUTTON == 19         \* 0x13
PH_PROTO_CMD_MOUSE_WHEEL == 20          \* 0x14
PH_PROTO_CMD_MOUSE_REL == 21            \* 0x15
PH_PROTO_CMD_MOUSE_LEFT_SELECT == 128
PH_PROTO_CMD_MOUSE_LEFT_STATE == 8
PH_PROTO_CMD_MOUSE_RIGHT_SELECT == 64
PH_PROTO_CMD_MOUSE_RIGHT_STATE == 4
PH_PROTO_CMD_MOUSE_MIDDLE_SELECT == 32
PH_PROTO_CMD_MOUSE_MIDDLE_STATE == 2
PH_PROTO_CMD_MOUSE_BACKWARD_SELECT == 128
PH_PROTO_CMD_MOUSE_BACKWARD_STATE == 8
PH_PROTO_CMD_MOUSE_FORWARD_SELECT == 64
PH_PROTO_CMD_MOUSE_FORWARD_STATE == 4

Byte == 0..255

(***************************************************************************)
(* Bitwise operations of C on non-negative integers.                       *)
(***************************************************************************)
RECURSIVE BitAnd(_, _)
BitAnd(a, b) ==
    IF a = 0 \/ b = 0 THEN 0
    ELSE (a % 2) * (b % 2) + 2 * BitAnd(a \div 2, b \div 2)

RECURSIVE BitOr(_, _)
BitOr(a, b) ==
    IF a = 0 THEN b
    ELSE IF b = 0 THEN a
    ELSE (IF a % 2 = 1 \/ b % 2 = 1 THEN 1 ELSE 0) + 2 * BitOr(a \div 2, b \div 2)

RECURSIVE BitXor(_, _)
BitXor(a, b) ==
    IF a = 0 THEN b
    ELSE IF b = 0 THEN a
    ELSE ((a + b) % 2) + 2 * BitXor(a \div 2, b \div 2)

\* ~x of an 8-bit operand, as it is used under "& ~x" with 8-bit values
BitNot8(a) == 255 - a

\* (x & bit) != 0
HasBit(x, bit) == BitAnd(x, bit) # 0

(***************************************************************************)
(* ph_tools.h: CRC-16 and 16-bit split / merge.                            *)
(***************************************************************************)
polinom == 40961                        \* 0xA001

\* the inner loop of ph_crc16: n shift steps of the 16-bit register
RECURSIVE crc_shift(_, _)
crc_shift(crc, n) ==
    IF n = 0 THEN crc
    ELSE IF crc % 2 = 0 THEN crc_shift(crc \div 2, n - 1)
    ELSE crc_shift(BitXor(crc \div 2, polinom), n - 1)

\* the outer loop of ph_crc16: the register after the first len bytes of buf
RECURSIVE crc_bytes(_, _)
crc_bytes(buf, len) ==
    IF len = 0 THEN 65535
    ELSE crc_shift(BitXor(crc_bytes(buf, len - 1), buf[len]), 8)

\* the CRC with the last byte of the range left out
crc16_short(buf, len) == crc_bytes(buf, len - 1)

ph_crc16(buf, len) == crc_bytes(buf, len)

ph_merge8_u16(a, b) == a * 256 + b

\* the two bytes low byte first
ph_split16_le(from) == <<from % 256, from \div 256>>

ph_split16(from) == <<from \div 256, from % 256>>

\* a request frame as the far end builds it: magic, command, 4 payload
\* bytes, big-endian CRC-16 of the first six bytes
MkRequest(cmd, p0, p1, p2, p3) ==
    LET head == <<PH_PROTO_MAGIC, cmd, p0, p1, p2, p3>>
    IN  head \o ph_split16(ph_crc16(head, 6))


(***************************************************************************)
(* State.                                                                  *)
(***************************************************************************)
VARIABLES
    \* build / board configuration, fixed for a run
    fw,                     \* "pico" (hid/pico) or "arduino" (hid/arduino, STM32 board)
    straps,                 \* Pico: strap pins read by ph_outputs_init; Arduino: build flags
    nv_powerup,             \* content of the non-volatile record when power was applied
    peer_frames,            \* the frames the far end of the link sends in this run
    peer_pauses,            \* the byte counts of a frame after which the far end may pause
    \* the poll loop (main.cpp loop) and the PS/2 clock line of the Arduino keyboard
    loop_pc,                \* "poll": between two handlers, "sendKey": inside the
                            \* while loop of Ps2Keyboard::sendKey
    ps2_clock_low,          \* digitalRead(HID_PS2_KBD_CLOCK_PIN) == 0
    \* the key session of the far end (changed by KbdSendKey only)
    key_events,             \* key events sent so far
    keys_used,              \* key codes 1 .. keys_used have been pressed at least once
    rollover,               \* "idle", "overflowed", "freed", "refilled": see rollover_next
    held_buttons,           \* mouse buttons the far end has pressed and not released
    \* output configuration (ph_outputs.c, outputs.h)
    nv,                     \* the persisted record: watchdog scratch[0] (4 bytes) / storage block (8 bytes)
    ph_g_outputs_active,    \* role byte active since boot
    ph_g_outputs_avail,     \* availability byte
    \* link engine (main.c, main.cpp)
    reset_required,         \* _reset_required
    reset_age,              \* Arduino: micros() - _reset_timestamp, capped
    prev_code,              \* static prev_code of _send_response
    \* byte-stream transport (ph_com_uart.c, serial.h)
    wire,                   \* bytes sent by the far end and not yet read
    buf,                    \* _buf[0 .. _index-1]: the bytes of the frame being assembled
    index,                  \* _index
    since_last,             \* time_us_64() - _last_ts, capped
    \* frame transport over SPI (ph_com_spi.c, drivers-avr/spi.cpp); its _in_buf and
    \* _in_index are buf and index
    spi_out,                \* _out_buf[8] / _spi_out[8]
    spi_out_index,          \* _out_index
    spi_receiving,          \* static receiving of the interrupt handler
    spi_tx,                 \* Pico: TX FIFO; AVR: SPDR as loaded by the handler; entries
                            \* <<byte, position in the response or 0 for a filler>>
    spi_rx,                 \* Pico: RX FIFO
    spi_wr,                 \* bytes ph_com_spi_write has still to copy, 0 outside of it
    spi_fresh,              \* a frame was completed and not yet handed to the data callback
    spi_started,            \* requests the far end has started to send
    \* observation of the last step
    out,                    \* response frames written to the transport by the last step
    dispatched,             \* command handler run by the last step, "none" if none
    cb,                     \* transport callback run by the last step: "data", "timeout", "none"
    rebooted,               \* the last step restarted the firmware
    req,                    \* the frame handed to the data callback by the last step, <<>> if none
    last_resp,              \* the response frame written most recently since boot, <<>> if none
    \* USB backend (ph_usb.c)
    kbd_iface,              \* _kbd_iface (-1 until the configuration descriptor is built)
    mouse_iface,            \* _mouse_iface
    kbd_mods,               \* _kbd_mods
    kbd_keys,               \* _kbd_keys[6]
    kbd_sent,               \* static sent of _kbd_sync_report
    kbd_report,             \* last keyboard report accepted by the USB stack
    mouse_buttons,          \* _mouse_buttons
    mouse_abs,              \* <<_mouse_abs_x, _mouse_abs_y>>
    mouse_report,           \* last mouse report handed to the USB stack
    ph_g_usb_kbd_leds,
    ph_g_usb_kbd_online,
    ph_g_usb_mouse_online,
    kbd_prev_online,        \* static prev_online of CHECK_IFACE(kbd)
    mouse_prev_online,      \* static prev_online of CHECK_IFACE(mouse)
    usb_ready,              \* environment: tud_ready() && tud_hid_n_ready()
    usb_suspended,          \* environment: tud_suspended()
    \* PS/2 backend state touched by the command layer (ph_ps2_kbd.c, ph_ps2_mouse.c)
    ph_ps2_kbd_scanning,
    ph_ps2_kbd_repeat,
    ph_ps2_kbd_repeatmod,
    ph_ps2_kbd_repeat_us,   \* typematic repeat interval, microseconds
    ph_ps2_kbd_delay_ms,    \* typematic delay, milliseconds
    ph_ps2_kbd_repeater,    \* alarm id returned by the last add_alarm_in_ms, 0: none
    ps2_alarms,             \* alarm pool: the pending alarms of ph_ps2_repeat_callback,
                            \* each [id, wait]: wait is the time it was set to run after
    ph_ps2_is_ctrl,
    ps2_kbd_blink,          \* the alarm of ph_ps2_kbd_reset is pending
    ps2_kbd_last_rx,        \* ph_ps2_kbd.last_rx
    ps2_kbd_rx_arg,         \* observer of the PS/2 host: last_rx was sent as the argument of
                            \* a Set-LEDs or Set-Typematic command byte
    ps2_tasked,             \* poll loop: ph_ps2_kbd_task has run since the last request
    ps2_kbd_qbytes,         \* ph_ps2_kbd.qbytes
    ps2_kbd_qpacks,         \* ph_ps2_kbd.qpacks, each pack the sequence of its bytes
    ps2_kbd_sent,           \* ph_ps2_kbd.sent
    ps2_kbd_last_tx,        \* ph_ps2_kbd.last_tx
    ps2_kbd_busy,           \* ph_ps2_kbd.busy: 1 the host holds the bus, 2 a frame was handed over
    ps2_kbd_tx,             \* frames the last call of the keyboard task put into the TX FIFO
    ps2_kbd_rx,             \* the word that call took from the RX FIFO, <<>> if none
    ps2_mouse_busy,         \* ph_ps2_mouse.busy
    ph_g_ps2_kbd_leds,
    ph_g_ps2_kbd_online,
    ph_g_ps2_mouse_online,
    ps2_buttons,            \* buttons of ph_ps2_mouse.c
    ms_mode,
    ms_type,
    ms_input_mode,
    ms_rate,
    ms_magic_seq,           \* the u32 as its four bytes, most significant first
    ms_knock,               \* observer of the PS/2 host: see ms_knock_next
    ps2_mouse_qbytes        \* ph_ps2_mouse.qbytes

boardVars == <<fw, straps, nv_powerup, peer_frames, peer_pauses>>
spiVars == <<spi_out, spi_out_index, spi_receiving, spi_tx, spi_rx, spi_wr, spi_fresh,
            spi_started>>
\* what the byte-stream engine, the clock and the buses leave alone
runVars == <<boardVars, spiVars>>
keyVars == <<key_events, keys_used, rollover, held_buttons>>
\* what no step of the link engine, the clock or the buses changes
loopVars == <<loop_pc, ps2_clock_low>>
cfgVars == <<runVars, keyVars, loopVars>>
outVars == <<nv, ph_g_outputs_active, ph_g_outputs_avail>>
engVars == <<reset_required, reset_age, prev_code>>
comVars == <<wire, buf, index, since_last>>
obsVars == <<out, dispatched, cb, rebooted, req, last_resp>>
usbVars == <<kbd_iface, mouse_iface, kbd_mods, kbd_keys, kbd_sent, kbd_report,
             mouse_buttons, mouse_abs, mouse_report, ph_g_usb_kbd_leds,
             ph_g_usb_kbd_online, ph_g_usb_mouse_online, kbd_prev_online,
             mouse_prev_online, usb_ready, usb_suspended>>
ps2PhyVars == <<ps2_kbd_qpacks, ps2_kbd_sent, ps2_kbd_last_tx, ps2_kbd_tx, ps2_kbd_rx>>
ps2Vars == <<ph_ps2_kbd_scanning, ph_ps2_kbd_repeat, ph_ps2_kbd_repeatmod,
             ph_ps2_kbd_repeat_us, ph_ps2_kbd_delay_ms, ps2_alarms,
             ph_ps2_kbd_repeater, ph_ps2_is_ctrl, ps2_kbd_blink, ps2_kbd_last_rx, ps2_kbd_rx_arg,
             ps2_tasked, ps2_kbd_qbytes, ph_g_ps2_kbd_leds, ph_g_ps2_kbd_online,
             ph_g_ps2_mouse_online, ps2_buttons, ms_mode, ms_type, ms_input_mode,
             ms_rate, ms_magic_seq, ms_knock, ps2_mouse_qbytes, ps2PhyVars,
             ps2_kbd_busy, ps2_mouse_busy>>
vars == <<cfgVars, outVars, engVars, comVars, obsVars, usbVars, ps2Vars>>

(***************************************************************************)
(* Output configuration store (ph_outputs.c; outputs.h has the same        *)
(* logic over an 8-byte record).                                           *)
(***************************************************************************)
\* number of record bytes the CRC covers: data[0..1] of the 4-byte scratch
\* word on the Pico, data[0..5] of the 8-byte block on the Arduino
RecCrcLen(f) == IF f = "pico" THEN 2 ELSE 6

\* _read_outputs: the role byte, or -1 if magic or CRC do not match
read_outputs(f, rec) ==
    IF rec[1] # PH_PROTO_MAGIC
       \/ ph_crc16(rec, RecCrcLen(f)) # ph_merge8_u16(rec[RecCrcLen(f) + 1], rec[RecCrcLen(f) + 2])
    THEN -1
    ELSE rec[2]

\* ph_outputs_write / writeOutputs with the masked merge done wrongly:
\* the stored byte is taken from the argument alone
outputs_write_nomerge(f, rec, mask, outputs, force) ==
    LET head == IF f = "pico" THEN <<PH_PROTO_MAGIC, outputs>>
                ELSE <<PH_PROTO_MAGIC, outputs, 0, 0, 0, 0>>
    IN  head \o ph_split16(ph_crc16(head, RecCrcLen(f)))

\* ph_outputs_write / writeOutputs: the record stored for (mask, outputs, force)
outputs_write(f, rec, mask, outputs, force) ==
    LET r    == IF force THEN 0 ELSE read_outputs(f, rec)
        old  == IF r < 0 THEN 0 ELSE r
        role == BitOr(BitAnd(old, BitNot8(mask)), outputs)
        head == IF f = "pico" THEN <<PH_PROTO_MAGIC, role>>
                ELSE <<PH_PROTO_MAGIC, role, 0, 0, 0, 0>>
    IN  head \o ph_split16(ph_crc16(head, RecCrcLen(f)))

KbdRole(active) == BitAnd(active, PH_PROTO_OUT1_KBD_MASK)
MouseRole(active) == BitAnd(active, PH_PROTO_OUT1_MOUSE_MASK)

\* Pico: usb disabled by the bridge strap or the USB-disable strap
o_usb_disabled(st) == st.bridge \/ st.usb_disabled

\* the defaults synthesised when no valid record is stored
default_outputs(f, st) ==
    IF f = "pico" THEN
        (IF st.ps2_enabled /\ (st.ps2_kbd \/ o_usb_disabled(st)) THEN PH_PROTO_OUT1_KBD_PS2
         ELSE IF ~o_usb_disabled(st) THEN PH_PROTO_OUT1_KBD_USB
         ELSE 0)
        +
        (IF st.ps2_enabled /\ (st.ps2_mouse \/ o_usb_disabled(st)) THEN PH_PROTO_OUT1_MOUSE_PS2
         ELSE IF ~o_usb_disabled(st) THEN
            (IF st.usb_enable_w98 /\ st.usb_mouse_w98 THEN PH_PROTO_OUT1_MOUSE_USB_W98
             ELSE IF st.usb_mouse_rel THEN PH_PROTO_OUT1_MOUSE_USB_REL
             ELSE PH_PROTO_OUT1_MOUSE_USB_ABS)
         ELSE 0)
    ELSE
        (IF st.with_usb /\ st.set_kbd = "usb" THEN PH_PROTO_OUT1_KBD_USB
         ELSE IF st.with_ps2 /\ st.set_kbd = "ps2" THEN PH_PROTO_OUT1_KBD_PS2
         ELSE 0)
        +
        (IF st.with_usb /\ st.set_mouse = "abs" THEN PH_PROTO_OUT1_MOUSE_USB_ABS
         ELSE IF st.with_usb /\ st.set_mouse = "rel" THEN PH_PROTO_OUT1_MOUSE_USB_REL
         ELSE IF st.with_ps2 /\ st.set_mouse = "ps2" THEN PH_PROTO_OUT1_MOUSE_PS2
         ELSE IF st.with_usb /\ st.with_w98 /\ st.set_mouse = "w98" THEN PH_PROTO_OUT1_MOUSE_USB_W98
         ELSE 0)

\* the availability byte: ph_g_outputs_avail on the Pico, the compiled-in
\* OUTPUTS2 bits of _sendResponse on the Arduino
outputs_avail(f, st) ==
    IF f = "pico" THEN
        (IF ~o_usb_disabled(st) THEN PH_PROTO_OUT2_HAS_USB ELSE 0)
        + (IF ~o_usb_disabled(st) /\ st.usb_enable_w98 THEN PH_PROTO_OUT2_HAS_USB_W98 ELSE 0)
        + (IF st.ps2_enabled THEN PH_PROTO_OUT2_HAS_PS2 ELSE 0)
    ELSE
        (IF st.with_usb THEN PH_PROTO_OUT2_HAS_USB ELSE 0)
        + (IF st.with_usb /\ st.with_w98 THEN PH_PROTO_OUT2_HAS_USB_W98 ELSE 0)
        + (IF st.with_ps2 THEN PH_PROTO_OUT2_HAS_PS2 ELSE 0)

\* ph_outputs_init / initOutputs without the write of the defaults
outputs_init_keep(f, st, rec) == rec

\* ph_outputs_init / initOutputs: the record kept in storage after boot
outputs_init_nv(f, st, rec) ==
    IF read_outputs(f, rec) < 0
    THEN outputs_write(f, rec, 255, default_outputs(f, st), TRUE)
    ELSE rec

\* Arduino: the role bits of the drivers makeKeyboard / makeMouse return for
\* a role byte; a role the build has no driver for gets the dummy driver (no
\* role bits).  The STM32 factory has USB drivers only, the AVR factory
\* (st.avr) has Ps2Keyboard as well
driver_roles(st, outputs) ==
    (IF st.with_usb /\ KbdRole(outputs) = PH_PROTO_OUT1_KBD_USB
     THEN PH_PROTO_OUT1_KBD_USB
     ELSE IF st.avr /\ st.with_ps2 /\ KbdRole(outputs) = PH_PROTO_OUT1_KBD_PS2
     THEN PH_PROTO_OUT1_KBD_PS2 ELSE 0)
    +
    (IF st.with_usb /\ MouseRole(outputs) \in {PH_PROTO_OUT1_MOUSE_USB_ABS,
                                               PH_PROTO_OUT1_MOUSE_USB_REL}
     THEN MouseRole(outputs) ELSE 0)

\* the roles active after boot: ph_g_outputs_active on the Pico, the types
\* of _out.kbd / _out.mouse on the Arduino
outputs_init_active(f, st, rec) ==
    LET outputs == IF read_outputs(f, rec) < 0 THEN default_outputs(f, st)
                   ELSE read_outputs(f, rec)
    IN  IF f = "pico" THEN outputs ELSE driver_roles(st, outputs)

\* PH_O_* macros of ph_outputs.h
PH_O_HAS_PS2 == HasBit(ph_g_outputs_avail, PH_PROTO_OUT2_HAS_PS2)
PH_O_IS_KBD_USB == KbdRole(ph_g_outputs_active) = PH_PROTO_OUT1_KBD_USB
PH_O_IS_KBD_PS2 == KbdRole(ph_g_outputs_active) = PH_PROTO_OUT1_KBD_PS2
PH_O_IS_MOUSE_USB_ABS ==
    MouseRole(ph_g_outputs_active) \in {PH_PROTO_OUT1_MOUSE_USB_ABS, PH_PROTO_OUT1_MOUSE_USB_W98}
PH_O_IS_MOUSE_USB_REL == MouseRole(ph_g_outputs_active) = PH_PROTO_OUT1_MOUSE_USB_REL
PH_O_IS_MOUSE_USB == PH_O_IS_MOUSE_USB_ABS \/ PH_O_IS_MOUSE_USB_REL
PH_O_IS_MOUSE_PS2 == MouseRole(ph_g_outputs_active) = PH_PROTO_OUT1_MOUSE_PS2

(***************************************************************************)
(* USB backend of the Pico firmware (ph_usb.c).                            *)
(***************************************************************************)
HID_KEY_CONTROL_LEFT == 224             \* 0xE0
HID_KEY_GUI_RIGHT == 231                \* 0xE7
MOUSE_BUTTON_LEFT == 1
MOUSE_BUTTON_RIGHT == 2
MOUSE_BUTTON_MIDDLE == 4
MOUSE_BUTTON_BACKWARD == 8
MOUSE_BUTTON_FORWARD == 16

NoKeys == <<0, 0, 0, 0, 0, 0>>

\* logical key code -> USB usage code (ph_usb_keymap / keymapUsb), 0 if unknown
KeymapTable ==
    <<4, 5, 6, 7, 8, 9, 10, 11, 12, 13, 14, 15, 16, 17, 18, 19, 20, 21, 22, 23,
      24, 25, 26, 27, 28, 29, 30, 31, 32, 33, 34, 35, 36, 37, 38, 39, 40, 41, 42,
      43, 44, 45, 46, 47, 48, 49, 51, 52, 53, 54, 55, 56, 57, 58, 59, 60, 61, 62,
      63, 64, 65, 66, 67, 68, 69, 70, 73, 74, 75, 76, 77, 78, 79, 80, 81, 82, 224,
      225, 226, 227, 228, 229, 230, 231, 72, 71, 83, 101, 84, 85, 86, 87, 88, 89,
      90, 91, 92, 93, 94, 95, 96, 97, 98, 99, 102, 100, 137, 135, 136, 138, 139>>

\* the table read with the logical code as a 0-based index
ph_usb_keymap_index0(code) ==
    IF code + 1 \in 1..Len(KeymapTable) THEN KeymapTable[code + 1] ELSE 0

ph_usb_keymap(code) == IF code \in 1..Len(KeymapTable) THEN KeymapTable[code] ELSE 0

\* the set of regular keys reported as held
HeldKeys(keys) == {keys[i] : i \in 1..6} \ {0}

\* positions (1..6) of the array holding v
Slots(keys, v) == {i \in 1..6 : keys[i] = v}

Max(S) == CHOOSE x \in S : \A y \in S : y <= x
Min(S) == CHOOSE x \in S : \A y \in S : x <= y

\* the press loop with the slot search broken: always writes slot 0
kbd_press_slot0(keys, key) ==
    IF Slots(keys, key) # {} THEN keys ELSE [keys EXCEPT ![1] = key]

\* ph_usb_kbd_send_key, regular key, state = true: unchanged if the key is
\* already there, else it goes to the last empty slot, or to slot 0 if no
\* slot is empty
kbd_press(keys, key) ==
    IF Slots(keys, key) # {} THEN keys
    ELSE IF Slots(keys, 0) # {} THEN [keys EXCEPT ![Max(Slots(keys, 0))] = key]
    ELSE [keys EXCEPT ![1] = key]

\* the release loop that finds the key and forgets to clear it
kbd_release_keep(keys, key) == keys

\* ph_usb_kbd_send_key, regular key, state = false: the first slot holding
\* the key is zeroed
kbd_release(keys, key) ==
    IF Slots(keys, key) # {} THEN [keys EXCEPT ![Min(Slots(keys, key))] = 0]
    ELSE keys

\* ph_usb_kbd_send_key, modifier: bit (key & 7) of the mask is set or cleared
kbd_mods_update(mods, key, state) ==
    LET bit == 2 ^ (key % 8)
    IN  IF state THEN BitOr(mods, bit) ELSE BitAnd(mods, BitNot8(bit))

IsModifier(key) == key >= HID_KEY_CONTROL_LEFT /\ key <= HID_KEY_GUI_RIGHT

\* _kbd_sync_report sending on a change only, an unsent report is not retried
kbd_sync_report_once(new, mods1, keys1) ==
    IF kbd_iface < 0 \/ ~PH_O_IS_KBD_USB
    THEN /\ kbd_mods' = 0
         /\ kbd_keys' = NoKeys
         /\ kbd_sent' = TRUE
         /\ UNCHANGED kbd_report
    ELSE /\ kbd_mods' = mods1
         /\ kbd_keys' = keys1
         /\ IF new
            THEN IF usb_suspended
                 THEN kbd_sent' = FALSE /\ UNCHANGED kbd_report
                 ELSE /\ kbd_sent' = usb_ready
                      /\ kbd_report' = IF usb_ready THEN <<mods1, keys1>> ELSE kbd_report
            ELSE UNCHANGED <<kbd_sent, kbd_report>>

\* _kbd_sync_report(new) once _kbd_mods and _kbd_keys hold (mods1, keys1)
kbd_sync_report(new, mods1, keys1) ==
    IF kbd_iface < 0 \/ ~PH_O_IS_KBD_USB
    THEN /\ kbd_mods' = 0
         /\ kbd_keys' = NoKeys
         /\ kbd_sent' = TRUE
         /\ UNCHANGED kbd_report
    ELSE /\ kbd_mods' = mods1
         /\ kbd_keys' = keys1
         /\ IF new \/ ~kbd_sent
            THEN IF usb_suspended
                 THEN kbd_sent' = FALSE /\ UNCHANGED kbd_report   \* tud_remote_wakeup()
                 ELSE /\ kbd_sent' = usb_ready     \* result of tud_hid_n_keyboard_report
                      /\ kbd_report' = IF usb_ready THEN <<mods1, keys1>> ELSE kbd_report
            ELSE UNCHANGED <<kbd_sent, kbd_report>>

\* ph_usb_kbd_send_key(key, state)
ph_usb_kbd_send_key(key, state) ==
    IF kbd_iface < 0
    THEN UNCHANGED <<kbd_mods, kbd_keys, kbd_sent, kbd_report>>
    ELSE IF IsModifier(key)
    THEN kbd_sync_report(TRUE, kbd_mods_update(kbd_mods, key, state), kbd_keys)
    ELSE IF state
    THEN kbd_sync_report(TRUE, kbd_mods, kbd_press(kbd_keys, key))
    ELSE kbd_sync_report(TRUE, kbd_mods, kbd_release(kbd_keys, key))

\* the mouse state the senders work on
MouseSt == [b |-> mouse_buttons, xy |-> mouse_abs, rep |-> mouse_report]

\* sign of a payload byte passed as s8
S8(v) == IF v >= 128 THEN v - 256 ELSE v

\* the coordinate _mouse_abs_send_report puts in the report (u16 arithmetic)
AbsCoord(v) ==
    LET x == (v + 32768) \div 2
    IN  IF MouseRole(ph_g_outputs_active) = PH_PROTO_OUT1_MOUSE_USB_W98
        THEN (x * 2) % 65536 ELSE x

\* _mouse_abs_send_report(h, v) for mode "abs", _mouse_rel_send_report(x, y, h, v)
\* for mode "rel", on mouse state m; d is <<x, y, v>>
mouse_send_report(m, mode, d) ==
    IF mouse_iface < 0
       \/ (mode = "abs" /\ ~PH_O_IS_MOUSE_USB_ABS)
       \/ (mode = "rel" /\ ~PH_O_IS_MOUSE_USB_REL)
       \/ usb_suspended
    THEN [m EXCEPT !.b = 0, !.xy = <<0, 0>>]               \* _MOUSE_CLEAR
    ELSE IF mode = "abs"
    THEN [m EXCEPT !.rep = <<"abs", m.b, AbsCoord(m.xy[1]), AbsCoord(m.xy[2]), d[3]>>]
    ELSE [m EXCEPT !.rep = <<"rel", m.b, d[1], d[2], d[3]>>]

\* the report the senders pick: abs if PH_O_IS_MOUSE_USB_ABS, else rel
MouseMode == IF PH_O_IS_MOUSE_USB_ABS THEN "abs" ELSE "rel"

\* ph_usb_mouse_send_button(button, state)
ph_usb_mouse_send_button(m, button, state) ==
    IF ~PH_O_IS_MOUSE_USB THEN m
    ELSE mouse_send_report(
            [m EXCEPT !.b = IF state THEN BitOr(m.b, button)
                            ELSE BitAnd(m.b, BitNot8(button))],
            MouseMode, <<0, 0, 0>>)

\* ph_usb_mouse_send_abs(x, y)
ph_usb_mouse_send_abs(m, x, y) ==
    IF PH_O_IS_MOUSE_USB_ABS
    THEN mouse_send_report([m EXCEPT !.xy = <<x, y>>], "abs", <<0, 0, 0>>)
    ELSE m

\* ph_usb_mouse_send_rel(x, y)
ph_usb_mouse_send_rel(m, x, y) ==
    IF PH_O_IS_MOUSE_USB_REL THEN mouse_send_report(m, "rel", <<x, y, 0>>) ELSE m

\* ph_usb_mouse_send_wheel(h, v)
ph_usb_mouse_send_wheel(m, h, v) == mouse_send_report(m, MouseMode, <<0, 0, v>>)

\* the mouse half of ph_usb_send_clear
usb_mouse_clear(m) ==
    IF PH_O_IS_MOUSE_USB
    THEN mouse_send_report([m EXCEPT !.b = 0, !.xy = <<0, 0>>], MouseMode, <<0, 0, 0>>)
    ELSE m

\* ph_usb_send_clear(): the keyboard half as an action on the keyboard state
ph_usb_send_clear_kbd ==
    IF PH_O_IS_KBD_USB
    THEN kbd_sync_report(TRUE, 0, NoKeys)
    ELSE UNCHANGED <<kbd_mods, kbd_keys, kbd_sent, kbd_report>>

(***************************************************************************)
(* PS/2 backend as far as the command layer drives it (ph_ps2_kbd.c,       *)
(* ph_ps2_mouse.c).                                                        *)
(***************************************************************************)
MS_TYPE_STANDARD == 0
MS_TYPE_WHEEL_3 == 3
MS_TYPE_WHEEL_5 == 4
MS_MODE_IDLE == 0
MS_MODE_STREAMING == 1
QBYTES_SIZE == 9                        \* queue_init(&this->qbytes, sizeof(u8), 9)

ph_ps2_mod2ps2 == <<20, 18, 17, 31, 20, 89, 17, 39>>

ph_ps2_hid2ps2 ==
    <<0, 0, 252, 0, 28, 50, 33, 35, 36, 43, 52, 51, 67, 59, 66, 75, 58, 49, 68, 77,
      21, 45, 27, 44, 60, 42, 29, 34, 53, 26, 22, 30, 38, 37, 46, 54, 61, 62, 70, 69,
      90, 118, 102, 13, 41, 78, 85, 84, 91, 93, 93, 76, 82, 14, 65, 73, 74, 88, 5, 6,
      4, 12, 3, 11, 131, 10, 1, 9, 120, 7, 124, 126, 126, 112, 108, 125, 113, 105,
      122, 116, 107, 114, 117, 119, 74, 124, 123, 121, 90, 105, 114, 122, 107, 115,
      116, 108, 117, 125, 112, 113, 97, 47, 55, 15, 8, 16, 24, 32, 40, 48, 56, 64,
      72, 80, 87, 95>>

ph_ps2_maparray == Len(ph_ps2_hid2ps2)

\* queue_try_add on a byte queue: dropped when the queue is full
q_add(q, b) == IF Len(q) < QBYTES_SIZE THEN Append(q, b) ELSE q

RECURSIVE q_add_all(_, _)
q_add_all(q, bs) == IF bs = <<>> THEN q ELSE q_add_all(q_add(q, Head(bs)), Tail(bs))

\* ph_ps2_kbd_maybe_send_e0: the bytes it sends
maybe_e0(byte) ==
    IF byte = 70 \/ (byte >= 73 /\ byte <= 82) \/ byte = 84 \/ byte = 88
       \/ byte = 101 \/ byte = 102 \/ byte >= 129
    THEN <<224>> ELSE <<>>

\* an alarm id the pool gives out: one that no pending alarm has
NewAlarmId(alarms) == CHOOSE i \in 1 .. Cardinality(alarms) + 1 : \A a \in alarms : a.id # i

\* the pool when the pending alarm is left in it
ps2_cancel_repeater_skip(alarms, repeater) == alarms

\* the pool after `if (ph_ps2_kbd_repeater) cancel_alarm(ph_ps2_kbd_repeater)`
ps2_cancel_repeater(alarms, repeater) ==
    IF repeater # 0 THEN {a \in alarms : a.id # repeater} ELSE alarms

\* `ph_ps2_kbd_repeater = add_alarm_in_ms(ph_ps2_kbd_delay_ms, ...)` after the
\* cancellation above
ps2_arm_repeater ==
    LET kept == ps2_cancel_repeater(ps2_alarms, ph_ps2_kbd_repeater)
        id   == NewAlarmId(kept)
    IN  /\ ph_ps2_kbd_repeater' = id
        /\ ps2_alarms' = kept \cup {[id |-> id, wait |-> ph_ps2_kbd_delay_ms * 1000]}

\* ph_ps2_kbd_send_key(key, state), modifier branch (key in 0xe0..0xe7)
ps2_kbd_send_mod(key, state) ==
    LET k     == key - 224
        ctrl1 == IF key = 224 \/ key = 228
                 THEN (IF state THEN ph_ps2_is_ctrl + 1 ELSE ph_ps2_is_ctrl - 1)
                 ELSE ph_ps2_is_ctrl
        ctrl2 == IF ctrl1 < 0 \/ ctrl1 > 2 THEN 0 ELSE ctrl1
        pre   == IF k > 2 /\ k # 5 THEN <<224>> ELSE <<>>
    IN  /\ ph_ps2_is_ctrl' = ctrl2
        /\ IF state
           THEN /\ ph_ps2_kbd_repeat' = k + 1
                /\ ph_ps2_kbd_repeatmod' = TRUE
                /\ ps2_arm_repeater
                /\ ps2_kbd_qbytes' = q_add_all(ps2_kbd_qbytes, pre \o <<ph_ps2_mod2ps2[k + 1]>>)
           ELSE /\ ph_ps2_kbd_repeat' =
                      IF ph_ps2_kbd_repeat = k + 1 /\ ph_ps2_kbd_repeatmod THEN 0
                      ELSE ph_ps2_kbd_repeat
                /\ UNCHANGED <<ph_ps2_kbd_repeatmod, ph_ps2_kbd_repeater, ps2_alarms>>
                /\ ps2_kbd_qbytes' =
                      q_add_all(ps2_kbd_qbytes, pre \o <<240, ph_ps2_mod2ps2[k + 1]>>)

\* the Pause sequence sent whatever ph_ps2_is_ctrl is
ps2_pause_make_fixed(is_ctrl) == <<225, 20, 119, 225, 240, 20, 240, 119>>

\* the bytes a Pause press sends: Break (make and break code of 0xE0 0x7E)
\* while a Control key is held, the Pause sequence otherwise
ps2_pause_make(is_ctrl) ==
    IF is_ctrl # 0 THEN <<224, 126, 224, 240, 126>>
    ELSE <<225, 20, 119, 225, 240, 20, 240, 119>>

\* ph_ps2_kbd_send_key(key, state), regular branch (key < ph_ps2_maparray)
ps2_kbd_send_regular(key, state) ==
    IF key = 72                                     \* 0x48, Pause
    THEN /\ ph_ps2_kbd_repeat' = 0
         /\ UNCHANGED <<ph_ps2_kbd_repeatmod, ph_ps2_kbd_repeater, ps2_alarms, ph_ps2_is_ctrl>>
         /\ ps2_kbd_qbytes' =
               IF ~state THEN ps2_kbd_qbytes
               ELSE q_add_all(ps2_kbd_qbytes, ps2_pause_make(ph_ps2_is_ctrl))
    ELSE /\ UNCHANGED ph_ps2_is_ctrl
         /\ IF state
            THEN /\ ph_ps2_kbd_repeat' = key
                 /\ ph_ps2_kbd_repeatmod' = FALSE
                 /\ ps2_arm_repeater
                 /\ ps2_kbd_qbytes' =
                       q_add_all(ps2_kbd_qbytes, maybe_e0(key) \o <<ph_ps2_hid2ps2[key + 1]>>)
            ELSE /\ ph_ps2_kbd_repeat' =
                       IF ph_ps2_kbd_repeat = key /\ ~ph_ps2_kbd_repeatmod THEN 0
                       ELSE ph_ps2_kbd_repeat
                 /\ UNCHANGED <<ph_ps2_kbd_repeatmod, ph_ps2_kbd_repeater, ps2_alarms>>
                 /\ ps2_kbd_qbytes' =
                       q_add_all(ps2_kbd_qbytes,
                                 maybe_e0(key) \o <<240, ph_ps2_hid2ps2[key + 1]>>)

\* ph_ps2_kbd_send_key(key, state) without the test of ph_ps2_kbd_scanning
ph_ps2_kbd_send_key_noscan(key, state) ==
    IF PH_O_IS_KBD_PS2
    THEN IF key >= 224 /\ key <= 231 THEN ps2_kbd_send_mod(key, state)
         ELSE IF key < ph_ps2_maparray THEN ps2_kbd_send_regular(key, state)
         ELSE UNCHANGED <<ph_ps2_kbd_repeat, ph_ps2_kbd_repeatmod, ph_ps2_kbd_repeater,
                          ps2_alarms, ph_ps2_is_ctrl, ps2_kbd_qbytes>>
    ELSE UNCHANGED <<ph_ps2_kbd_repeat, ph_ps2_kbd_repeatmod, ph_ps2_kbd_repeater,
                     ps2_alarms, ph_ps2_is_ctrl, ps2_kbd_qbytes>>

\* ph_ps2_kbd_send_key(key, state)
ph_ps2_kbd_send_key(key, state) ==
    IF PH_O_IS_KBD_PS2 /\ ph_ps2_kbd_scanning
    THEN IF key >= 224 /\ key <= 231 THEN ps2_kbd_send_mod(key, state)
         ELSE IF key < ph_ps2_maparray THEN ps2_kbd_send_regular(key, state)
         ELSE UNCHANGED <<ph_ps2_kbd_repeat, ph_ps2_kbd_repeatmod, ph_ps2_kbd_repeater,
                          ps2_alarms, ph_ps2_is_ctrl, ps2_kbd_qbytes>>
    ELSE UNCHANGED <<ph_ps2_kbd_repeat, ph_ps2_kbd_repeatmod, ph_ps2_kbd_repeater,
                     ps2_alarms, ph_ps2_is_ctrl, ps2_kbd_qbytes>>

\* the PS/2 mouse state the senders work on
Ps2MouseSt == [b |-> ps2_buttons, q |-> ps2_mouse_qbytes]

\* ph_ps2_mouse_packet(button, x1, y1) with Y treated as X is: the byte as
\* it came, its sign in the flag
ph_ps2_mouse_packet_plain(button, x1, y1) ==
    IF ms_mode # MS_MODE_STREAMING THEN <<>>
    ELSE <<BitAnd(button, 7) + 8 + (IF x1 >= 128 THEN 16 ELSE 0)
                                 + (IF y1 >= 128 THEN 32 ELSE 0), x1, y1>>
         \o (IF ms_type \in {MS_TYPE_WHEEL_3, MS_TYPE_WHEEL_5} THEN <<0>> ELSE <<>>)

\* ph_ps2_mouse_packet(button, x1, y1): the bytes it sends (u8 arithmetic)
ph_ps2_mouse_packet(button, x1, y1) ==
    IF ms_mode # MS_MODE_STREAMING THEN <<>>
    ELSE LET s0 == BitAnd(button, 7) + 8
             xn == x1 >= 128
             yn == y1 >= 128
             y0 == y1 % 128
             s  == s0 + (IF xn THEN 16 ELSE 0) + (IF ~yn /\ y0 # 0 THEN 32 ELSE 0)
             x  == (x1 % 128) + (IF xn THEN 128 ELSE 0)
             y  == IF yn THEN 128 - y0 ELSE IF y0 # 0 THEN 256 - y0 ELSE y0
         IN  <<s, x, y>> \o (IF ms_type \in {MS_TYPE_WHEEL_3, MS_TYPE_WHEEL_5}
                             THEN <<0>> ELSE <<>>)

\* ph_ps2_mouse_send_button(button, state): button is the USB button code;
\* the mask is updated with (1 << (button - 1)) truncated to 8 bits
ph_ps2_mouse_send_button(p, button, state) ==
    LET bit == (2 ^ (button - 1)) % 256
        b1  == IF state THEN BitOr(p.b, bit) ELSE BitAnd(p.b, BitNot8(bit))
    IN  [b |-> b1, q |-> q_add_all(p.q, ph_ps2_mouse_packet(b1, 0, 0))]

\* ph_ps2_mouse_send_rel(x1, y1)
ph_ps2_mouse_send_rel(p, x1, y1) ==
    [p EXCEPT !.q = q_add_all(p.q, ph_ps2_mouse_packet(p.b, x1, y1))]

\* ph_ps2_send_clear (ph_ps2.c): an empty function
ph_ps2_send_clear == TRUE

\* the PS/2 LED mask taken as the mask of the USB keyboard report
ph_ps2_led2ps2_same == <<0, 1, 2, 3, 4, 5, 6, 7>>

\* ph_ps2_led2ps2[]: the LED mask of the command layer (NUM 1, CAPS 2,
\* SCROLL 4) for a PS/2 LED mask (SCROLL 1, NUM 2, CAPS 4)
ph_ps2_led2ps2 == <<0, 4, 1, 5, 2, 6, 3, 7>>

ph_ps2_repeats ==
    <<33333, 37453, 41667, 45872, 48309, 54054, 58480, 62500,
      66667, 75188, 83333, 91743, 100000, 108696, 116279, 125000,
      133333, 149254, 166667, 181818, 200000, 217391, 232558, 250000,
      270270, 303030, 333333, 370370, 400000, 434783, 476190, 500000>>

ph_ps2_delays == <<250, 500, 750, 1000>>

\* ph_ps2_kbd_receive(byte, prev_byte), called by ph_ps2_phy_task after it
\* has emptied the transmit queues
ph_ps2_kbd_receive(byte, prev_byte) ==
    LET ack(q) == q_add(q, 250)
        typematic == <<ph_ps2_kbd_repeat_us, ph_ps2_kbd_delay_ms>>
    IN  IF prev_byte = 237                                  \* 0xed, Set LEDs
        THEN /\ ph_g_ps2_kbd_leds' = ph_ps2_led2ps2[(IF byte > 7 THEN 0 ELSE byte) + 1]
             /\ ps2_kbd_qbytes' = ack(<<>>)
             /\ UNCHANGED <<ph_ps2_kbd_scanning, ph_ps2_kbd_repeat, ps2_kbd_blink,
                            typematic>>
        ELSE IF prev_byte = 243                             \* 0xf3, typematic
        THEN /\ ph_ps2_kbd_repeat_us' = ph_ps2_repeats[(byte % 32) + 1]
             /\ ph_ps2_kbd_delay_ms' = ph_ps2_delays[((byte \div 32) % 4) + 1]
             /\ ps2_kbd_qbytes' = ack(<<>>)
             /\ UNCHANGED <<ph_g_ps2_kbd_leds, ph_ps2_kbd_scanning, ph_ps2_kbd_repeat,
                            ps2_kbd_blink>>
        ELSE IF byte = 255                                  \* Reset
        THEN /\ ph_ps2_kbd_scanning' = TRUE                 \* ph_ps2_kbd_reset
             /\ ph_ps2_kbd_repeat_us' = 91743
             /\ ph_ps2_kbd_delay_ms' = 500
             /\ ph_ps2_kbd_repeat' = 0
             /\ ph_g_ps2_kbd_leds' = 7
             /\ ps2_kbd_blink' = ps2_kbd_blink + 1
             /\ ps2_kbd_qbytes' = ack(<<>>)
        ELSE IF byte = 238                                  \* Echo
        THEN /\ ps2_kbd_qbytes' = <<238>>
             /\ UNCHANGED <<ph_g_ps2_kbd_leds, ph_ps2_kbd_scanning, ph_ps2_kbd_repeat,
                            ps2_kbd_blink, typematic>>
        ELSE IF byte = 242                                  \* Identify
        THEN /\ ps2_kbd_qbytes' = <<250, 171, 131>>
             /\ UNCHANGED <<ph_g_ps2_kbd_leds, ph_ps2_kbd_scanning, ph_ps2_kbd_repeat,
                            ps2_kbd_blink, typematic>>
        ELSE IF byte = 244                                  \* Enable scanning
        THEN /\ ph_ps2_kbd_scanning' = TRUE
             /\ ps2_kbd_qbytes' = ack(<<>>)
             /\ UNCHANGED <<ph_g_ps2_kbd_leds, ph_ps2_kbd_repeat, ps2_kbd_blink,
                            typematic>>
        ELSE IF byte = 245 \/ byte = 246                    \* Disable / defaults
        THEN /\ ph_ps2_kbd_scanning' = (byte = 246)
             /\ ph_ps2_kbd_repeat_us' = 91743
             /\ ph_ps2_kbd_delay_ms' = 500
             /\ ph_ps2_kbd_repeat' = 0
             /\ ph_g_ps2_kbd_leds' = 0
             /\ ps2_kbd_qbytes' = ack(<<>>)
             /\ UNCHANGED ps2_kbd_blink
        ELSE /\ ps2_kbd_qbytes' = ack(<<>>)
             /\ UNCHANGED <<ph_g_ps2_kbd_leds, ph_ps2_kbd_scanning, ph_ps2_kbd_repeat,
                            ps2_kbd_blink, typematic>>

\* ph_ps2_mouse_receive(byte, prev_byte), called by ph_ps2_phy_task after it
\* has emptied the transmit queues
ph_ps2_mouse_receive(byte) ==
    IF ms_input_mode = 1                                    \* MS_INPUT_SET_RATE
    THEN LET seq == <<ms_magic_seq[2], ms_magic_seq[3], ms_magic_seq[4], byte>>
         IN  /\ ms_rate' = byte
             /\ ms_input_mode' = 0
             /\ ms_magic_seq' = seq
             /\ ms_type' = IF ms_type = MS_TYPE_STANDARD /\ seq = <<0, 200, 100, 80>>
                           THEN MS_TYPE_WHEEL_3
                           ELSE IF ms_type = MS_TYPE_WHEEL_3 /\ seq = <<0, 200, 200, 80>>
                           THEN MS_TYPE_WHEEL_5
                           ELSE ms_type
             /\ ps2_mouse_qbytes' = <<250>>
             /\ UNCHANGED ms_mode
    ELSE /\ ms_magic_seq' = IF byte # 243 THEN <<0, 0, 0, 0>> ELSE ms_magic_seq
         /\ IF byte = 255                                   \* Reset
            THEN /\ ms_type' = MS_TYPE_STANDARD
                 /\ ms_mode' = MS_MODE_IDLE
                 /\ ms_rate' = 100
                 /\ ps2_mouse_qbytes' = <<250, 170, MS_TYPE_STANDARD>>
                 /\ UNCHANGED ms_input_mode
            ELSE IF byte = 246                              \* Set Defaults
            THEN /\ ms_type' = MS_TYPE_STANDARD
                 /\ ms_rate' = 100
                 /\ ms_mode' = MS_MODE_IDLE
                 /\ ps2_mouse_qbytes' = <<250>>
                 /\ UNCHANGED ms_input_mode
            ELSE IF byte = 245 \/ byte = 234                \* Disable / Stream Mode
            THEN /\ ms_mode' = MS_MODE_IDLE
                 /\ ps2_mouse_qbytes' = <<250>>
                 /\ UNCHANGED <<ms_type, ms_rate, ms_input_mode>>
            ELSE IF byte = 244                              \* Enable Data Reporting
            THEN /\ ms_mode' = MS_MODE_STREAMING
                 /\ ps2_mouse_qbytes' = <<250>>
                 /\ UNCHANGED <<ms_type, ms_rate, ms_input_mode>>
            ELSE IF byte = 243                              \* Set Sample Rate
            THEN /\ ms_input_mode' = 1
                 /\ ps2_mouse_qbytes' = <<250>>
                 /\ UNCHANGED <<ms_type, ms_rate, ms_mode>>
            ELSE IF byte = 242                              \* Get Device ID
            THEN /\ ps2_mouse_qbytes' = <<250, ms_type>>
                 /\ UNCHANGED <<ms_type, ms_rate, ms_mode, ms_input_mode>>
            ELSE IF byte = 233                              \* Status Request
            THEN /\ ps2_mouse_qbytes' = <<250, 0, 2, ms_rate>>
                 /\ UNCHANGED <<ms_type, ms_rate, ms_mode, ms_input_mode>>
            ELSE /\ ps2_mouse_qbytes' = <<250>>
                 /\ UNCHANGED <<ms_type, ms_rate, ms_mode, ms_input_mode>>

(***************************************************************************)
(* Command layer (ph_cmds.c; _cmd* of main.cpp).                           *)
(***************************************************************************)
usbKbdVars == <<kbd_mods, kbd_keys, kbd_sent, kbd_report>>
usbMouseVars == <<mouse_buttons, mouse_abs, mouse_report>>
usbEnvVars == <<kbd_iface, mouse_iface, ph_g_usb_kbd_leds, ph_g_usb_kbd_online,
                ph_g_usb_mouse_online, kbd_prev_online, mouse_prev_online,
                usb_ready, usb_suspended>>
ps2KbdKeyVars == <<ph_ps2_kbd_repeat, ph_ps2_kbd_repeatmod, ph_ps2_kbd_repeater, ps2_alarms,
                   ph_ps2_is_ctrl, ps2_kbd_qbytes>>
ps2MouseKeyVars == <<ps2_buttons, ps2_mouse_qbytes>>
ps2EnvVars == <<ph_ps2_kbd_scanning, ph_ps2_kbd_repeat_us, ph_ps2_kbd_delay_ms, ps2_kbd_blink,
                ps2_kbd_last_rx, ps2_kbd_rx_arg, ps2_tasked, ph_g_ps2_kbd_leds,
                ph_g_ps2_kbd_online, ph_g_ps2_mouse_online, ms_mode, ms_type,
                ms_input_mode, ms_rate, ms_magic_seq, ms_knock, ps2PhyVars,
                ps2_kbd_busy, ps2_mouse_busy>>
hidVars == <<usbKbdVars, usbMouseVars, ps2KbdKeyVars, ps2MouseKeyVars>>

KEYBOARD_LED_NUMLOCK == 1
KEYBOARD_LED_CAPSLOCK == 2
KEYBOARD_LED_SCROLLLOCK == 4

ph_merge8_s16(a, b) ==
    LET u == a * 256 + b IN IF u >= 32768 THEN u - 65536 ELSE u

\* ph_cmd_kbd_get_leds
ph_cmd_kbd_get_leds ==
    LET leds == IF PH_O_IS_KBD_USB THEN ph_g_usb_kbd_leds
                ELSE IF PH_O_IS_KBD_PS2 THEN ph_g_ps2_kbd_leds
                ELSE 0
    IN  (IF HasBit(leds, KEYBOARD_LED_CAPSLOCK) THEN PH_PROTO_PONG_CAPS ELSE 0)
        + (IF HasBit(leds, KEYBOARD_LED_SCROLLLOCK) THEN PH_PROTO_PONG_SCROLL ELSE 0)
        + (IF HasBit(leds, KEYBOARD_LED_NUMLOCK) THEN PH_PROTO_PONG_NUM ELSE 0)

\* ph_cmd_get_offlines
ph_cmd_get_offlines ==
    LET kbd_online   == IF PH_O_IS_KBD_USB THEN ph_g_usb_kbd_online
                        ELSE IF PH_O_IS_KBD_PS2 THEN ph_g_ps2_kbd_online
                        ELSE TRUE
        mouse_online == IF PH_O_IS_MOUSE_USB THEN ph_g_usb_mouse_online
                        ELSE IF PH_O_IS_MOUSE_PS2 THEN ph_g_ps2_mouse_online
                        ELSE TRUE
    IN  (IF kbd_online THEN 0 ELSE PH_PROTO_PONG_KBD_OFFLINE)
        + (IF mouse_online THEN 0 ELSE PH_PROTO_PONG_MOUSE_OFFLINE)

\* ph_cmd_set_kbd / _cmdSetKeyboard: the record it stores
ph_cmd_set_kbd(f, rec, args) ==
    outputs_write(f, rec, PH_PROTO_OUT1_KBD_MASK, args[1], FALSE)

\* ph_cmd_set_mouse / _cmdSetMouse: the record it stores
ph_cmd_set_mouse(f, rec, args) ==
    outputs_write(f, rec, PH_PROTO_OUT1_MOUSE_MASK, args[1], FALSE)

\* ph_cmd_send_clear
ph_cmd_send_clear ==
    /\ ph_usb_send_clear_kbd
    /\ LET m == usb_mouse_clear(MouseSt)
       IN  mouse_buttons' = m.b /\ mouse_abs' = m.xy /\ mouse_report' = m.rep
    /\ ph_ps2_send_clear
    /\ UNCHANGED <<ps2KbdKeyVars, ps2MouseKeyVars>>

\* ph_cmd_kbd_send_key
ph_cmd_kbd_send_key(args) ==
    LET key == ph_usb_keymap(args[1])
    IN  IF key > 0 /\ PH_O_IS_KBD_USB
        THEN /\ ph_usb_kbd_send_key(key, args[2] # 0)
             /\ UNCHANGED <<usbMouseVars, ps2KbdKeyVars, ps2MouseKeyVars>>
        ELSE IF key > 0 /\ PH_O_IS_KBD_PS2
        THEN /\ ph_ps2_kbd_send_key(key, args[2] # 0)
             /\ UNCHANGED <<usbKbdVars, usbMouseVars, ps2MouseKeyVars>>
        ELSE UNCHANGED hidVars

\* one HANDLE(x_byte_n, x_button) of ph_cmd_mouse_send_button, on the pair
\* st = <<USB mouse state, PS/2 mouse state>>
mouse_button_handle(st, byte, select, state, button) ==
    IF ~HasBit(byte, select) THEN st
    ELSE IF PH_O_IS_MOUSE_USB
    THEN <<ph_usb_mouse_send_button(st[1], button, HasBit(byte, state)), st[2]>>
    ELSE IF PH_O_IS_MOUSE_PS2
    THEN <<st[1], ph_ps2_mouse_send_button(st[2], button, HasBit(byte, state))>>
    ELSE st

\* ph_cmd_mouse_send_button
ph_cmd_mouse_send_button(args) ==
    LET s0 == <<MouseSt, Ps2MouseSt>>
        s1 == mouse_button_handle(s0, args[1], PH_PROTO_CMD_MOUSE_LEFT_SELECT,
                                  PH_PROTO_CMD_MOUSE_LEFT_STATE, MOUSE_BUTTON_LEFT)
        s2 == mouse_button_handle(s1, args[1], PH_PROTO_CMD_MOUSE_RIGHT_SELECT,
                                  PH_PROTO_CMD_MOUSE_RIGHT_STATE, MOUSE_BUTTON_RIGHT)
        s3 == mouse_button_handle(s2, args[1], PH_PROTO_CMD_MOUSE_MIDDLE_SELECT,
                                  PH_PROTO_CMD_MOUSE_MIDDLE_STATE, MOUSE_BUTTON_MIDDLE)
        s4 == mouse_button_handle(s3, args[2], PH_PROTO_CMD_MOUSE_BACKWARD_SELECT,
                                  PH_PROTO_CMD_MOUSE_BACKWARD_STATE, MOUSE_BUTTON_BACKWARD)
        s5 == mouse_button_handle(s4, args[2], PH_PROTO_CMD_MOUSE_FORWARD_SELECT,
                                  PH_PROTO_CMD_MOUSE_FORWARD_STATE, MOUSE_BUTTON_FORWARD)
    IN  /\ mouse_buttons' = s5[1].b /\ mouse_abs' = s5[1].xy /\ mouse_report' = s5[1].rep
        /\ ps2_buttons' = s5[2].b /\ ps2_mouse_qbytes' = s5[2].q
        /\ UNCHANGED <<usbKbdVars, ps2KbdKeyVars>>

\* the three mouse-motion handlers store a USB and a PS/2 mouse state
mouse_store(m, p) ==
    /\ mouse_buttons' = m.b /\ mouse_abs' = m.xy /\ mouse_report' = m.rep
    /\ ps2_buttons' = p.b /\ ps2_mouse_qbytes' = p.q
    /\ UNCHANGED <<usbKbdVars, ps2KbdKeyVars>>

\* ph_cmd_mouse_send_abs
ph_cmd_mouse_send_abs(args) ==
    IF PH_O_IS_MOUSE_USB_ABS
    THEN mouse_store(ph_usb_mouse_send_abs(MouseSt, ph_merge8_s16(args[1], args[2]),
                                           ph_merge8_s16(args[3], args[4])),
                     Ps2MouseSt)
    ELSE UNCHANGED hidVars

\* ph_cmd_mouse_send_rel
ph_cmd_mouse_send_rel(args) ==
    IF PH_O_IS_MOUSE_USB_REL
    THEN mouse_store(ph_usb_mouse_send_rel(MouseSt, S8(args[1]), S8(args[2])), Ps2MouseSt)
    ELSE IF PH_O_IS_MOUSE_PS2
    THEN mouse_store(MouseSt, ph_ps2_mouse_send_rel(Ps2MouseSt, args[1], args[2]))
    ELSE UNCHANGED hidVars

\* ph_cmd_mouse_send_wheel (ph_ps2_mouse_send_wheel does nothing)
ph_cmd_mouse_send_wheel(args) ==
    IF PH_O_IS_MOUSE_USB
    THEN mouse_store(ph_usb_mouse_send_wheel(MouseSt, S8(args[1]), S8(args[2])), Ps2MouseSt)
    ELSE UNCHANGED hidVars

(***************************************************************************)
(* Link engine (main.c; main.cpp).                                         *)
(***************************************************************************)
_TIMEOUT_US == 100000                   \* receive timeout of the byte-stream transports
RESET_TIMEOUT == 500000                 \* Arduino: delay of the deferred reset
TickUs == 250000                        \* time that passes in one Tick step

\* the timeout test with the comparison turned round
timed_out_reversed(ticks, timeout) == ticks * TickUs < timeout

\* start + timeout < now, with the elapsed time counted in ticks
timed_out(ticks, timeout) == ticks * TickUs > timeout

\* the largest tick count that has to be told apart for a timeout
TickCap(timeout) == (timeout \div TickUs) + 1

\* the acceptance test of _handle_request with the CRC comparison left out
request_valid_nocrc(data) == data[1] = PH_PROTO_MAGIC

\* the acceptance test of _handle_request / _handleRequest
request_valid(data) ==
    data[1] = PH_PROTO_MAGIC /\ ph_crc16(data, 6) = ph_merge8_u16(data[7], data[8])

\* the handler the switch of _handle_request / _handleRequest runs for a
\* command byte, "none" if it runs none
HandlerOf(f, cmd) ==
    CASE cmd = PH_PROTO_CMD_SET_KBD -> "set_kbd"
      [] cmd = PH_PROTO_CMD_SET_MOUSE -> "set_mouse"
      [] cmd = PH_PROTO_CMD_SET_CONNECTED /\ f = "arduino" -> "set_connected"
      [] cmd = PH_PROTO_CMD_CLEAR_HID -> "clear"
      [] cmd = PH_PROTO_CMD_KBD_KEY -> "key"
      [] cmd = PH_PROTO_CMD_MOUSE_BUTTON -> "button"
      [] cmd = PH_PROTO_CMD_MOUSE_ABS -> "abs"
      [] cmd = PH_PROTO_CMD_MOUSE_REL -> "rel"
      [] cmd = PH_PROTO_CMD_MOUSE_WHEEL -> "wheel"
      [] OTHER -> "none"

KnownCmds ==
    {PH_PROTO_CMD_PING, PH_PROTO_CMD_SET_KBD, PH_PROTO_CMD_SET_MOUSE,
     PH_PROTO_CMD_SET_CONNECTED, PH_PROTO_CMD_CLEAR_HID, PH_PROTO_CMD_KBD_KEY,
     PH_PROTO_CMD_MOUSE_BUTTON, PH_PROTO_CMD_MOUSE_ABS, PH_PROTO_CMD_MOUSE_REL,
     PH_PROTO_CMD_MOUSE_WHEEL}

\* _handle_request with the switch entered before the frame is validated
request_handler_unchecked(f, data) == HandlerOf(f, data[2])

\* _handle_request / _handleRequest: the handler it runs
request_handler(f, data) ==
    IF request_valid(data) THEN HandlerOf(f, data[2]) ELSE "none"

\* _handle_request with REPEAT answered like PING
request_code_ping(f, data) ==
    IF ~request_valid(data) THEN PH_PROTO_RESP_CRC_ERROR
    ELSE IF data[2] \in KnownCmds \cup {PH_PROTO_CMD_REPEAT} THEN PH_PROTO_PONG_OK
    ELSE PH_PROTO_RESP_INVALID_ERROR

\* _handle_request / _handleRequest: the code it returns (0 for REPEAT)
request_code(f, data) ==
    IF ~request_valid(data) THEN PH_PROTO_RESP_CRC_ERROR
    ELSE IF data[2] = PH_PROTO_CMD_REPEAT THEN 0
    ELSE IF data[2] \in KnownCmds THEN PH_PROTO_PONG_OK
    ELSE PH_PROTO_RESP_INVALID_ERROR

\* bytes 1..3 of a PONG response, built from the current state; rr is
\* _reset_required at that moment
PongBytes(rr) ==
    IF fw = "pico"
    THEN <<PH_PROTO_PONG_OK + (IF rr THEN PH_PROTO_PONG_RESET_REQUIRED ELSE 0)
             + ph_cmd_get_offlines + ph_cmd_kbd_get_leds,
           BitOr(PH_PROTO_OUT1_DYNAMIC, ph_g_outputs_active),
           ph_g_outputs_avail>>
    ELSE LET kbd   == KbdRole(ph_g_outputs_active) # 0        \* getType() != DUMMY
             mouse == MouseRole(ph_g_outputs_active) # 0
             leds  == ph_g_usb_kbd_leds
         IN  <<PH_PROTO_PONG_OK + (IF rr THEN PH_PROTO_PONG_RESET_REQUIRED ELSE 0)
                 + (IF kbd /\ ~usb_ready THEN PH_PROTO_PONG_KBD_OFFLINE ELSE 0)
                 + (IF kbd /\ HasBit(leds, KEYBOARD_LED_CAPSLOCK) THEN PH_PROTO_PONG_CAPS ELSE 0)
                 + (IF kbd /\ HasBit(leds, KEYBOARD_LED_NUMLOCK) THEN PH_PROTO_PONG_NUM ELSE 0)
                 + (IF kbd /\ HasBit(leds, KEYBOARD_LED_SCROLLLOCK) THEN PH_PROTO_PONG_SCROLL ELSE 0)
                 + (IF mouse /\ ~usb_ready THEN PH_PROTO_PONG_MOUSE_OFFLINE ELSE 0),
               PH_PROTO_OUT1_DYNAMIC + ph_g_outputs_active,
               ph_g_outputs_avail>>

\* the frame _send_response / _sendResponse builds for a (resolved) code
Response(code, rr) ==
    LET head == <<PH_PROTO_MAGIC_RESP>>
                \o (IF BitAnd(code, PH_PROTO_PONG_OK) # 0 THEN PongBytes(rr)
                    ELSE <<code, 0, 0>>)
                \o <<0, 0>>
    IN  head \o ph_split16(ph_crc16(head, 6))

\* _send_response with the repeat branch storing the sentinel as prev_code
resolve_code_forget(code, prev) == code

\* _send_response / _sendResponse: the code answered for the code handed in
resolve_code(code, prev) == IF code = 0 THEN prev ELSE code

\* the reset taken as soon as it is required, whatever its age
reset_fires_nowait(code, rr, age) ==
    /\ fw = "arduino"
    /\ BitAnd(code, PH_PROTO_PONG_OK) # 0
    /\ rr

\* Arduino: _sendResponse calls _board->reset() before it writes
reset_fires(code, rr, age) ==
    /\ fw = "arduino"
    /\ BitAnd(code, PH_PROTO_PONG_OK) # 0
    /\ rr
    /\ timed_out(age, RESET_TIMEOUT)

\* the effect of the handler on the keyboard / mouse backends
RunHidHandler(h, args) ==
    IF fw = "arduino" THEN UNCHANGED hidVars        \* library backends, not modelled
    ELSE CASE h = "clear" -> ph_cmd_send_clear
           [] h = "key" -> ph_cmd_kbd_send_key(args)
           [] h = "button" -> ph_cmd_mouse_send_button(args)
           [] h = "abs" -> ph_cmd_mouse_send_abs(args)
           [] h = "rel" -> ph_cmd_mouse_send_rel(args)
           [] h = "wheel" -> ph_cmd_mouse_send_wheel(args)
           [] OTHER -> UNCHANGED hidVars

\* the effect of the handler on the persisted record
RunCfgHandler(h, args) ==
    CASE h = "set_kbd" -> ph_cmd_set_kbd(fw, nv, args)
      [] h = "set_mouse" -> ph_cmd_set_mouse(fw, nv, args)
      [] OTHER -> nv

(***************************************************************************)
(* Frame transport over SPI (ph_com_spi.c; drivers-avr/spi.cpp has the     *)
(* same logic over the one-byte register SPDR). The interrupt handler is   *)
(* computed on a record of the variables it works on.                      *)
(***************************************************************************)
SPI_FIFO_DEPTH == 8                     \* entries of the TX and of the RX FIFO of the SSP
SPI_FIFO_HALF == 4                      \* TXIM: TX FIFO half empty or less; RXIM: RX FIFO half full or more

\* the filler the handler transmits while no response is ready (DR = 0)
SpiIdle == <<0, 0>>

NoResponse == <<0, 0, 0, 0, 0, 0, 0, 0>>

\* the TX side after ph_com_spi_init enabled the interrupt (the handler has
\* filled the empty FIFO with fillers); AVR: SPDR after reset
spi_tx_init(f) == IF f = "pico" THEN [i \in 1..SPI_FIFO_DEPTH |-> SpiIdle] ELSE <<SpiIdle>>

SpiInit(f) ==
    /\ spi_out = NoResponse
    /\ spi_out_index = 0
    /\ spi_receiving = FALSE
    /\ spi_tx = spi_tx_init(f)
    /\ spi_rx = <<>>
    /\ spi_wr = 0
    /\ spi_fresh = FALSE
    /\ spi_started = 0

\* the variables of the handler as a record
SpiState ==
    [inb |-> buf, out |-> spi_out, oi |-> spi_out_index, rcv |-> spi_receiving,
     tx |-> spi_tx, rx |-> spi_rx]

\* the handler puts byte _out_index of the response into the transmitter t;
\* with the eighth byte it resets both indices and clears the start flag
spi_put_response(s, t) ==
    IF s.oi + 1 = 8
    THEN [s EXCEPT !.tx = t, !.oi = 0, !.inb = <<>>, !.out = [s.out EXCEPT ![1] = 0]]
    ELSE [s EXCEPT !.tx = t, !.oi = s.oi + 1]

\* _xfer_isr, first loop: while the TX FIFO is not full
RECURSIVE spi_isr_tx(_)
spi_isr_tx(s) ==
    IF Len(s.tx) >= SPI_FIFO_DEPTH THEN s
    ELSE IF s.out[1] # 0 /\ s.oi < 8
    THEN spi_isr_tx(spi_put_response(s, Append(s.tx, <<s.out[s.oi + 1], s.oi + 1>>)))
    ELSE spi_isr_tx([s EXCEPT !.tx = Append(s.tx, SpiIdle)])

\* the receive part of both handlers for one byte
spi_receive(s, in) ==
    LET rcv1 == s.rcv \/ in # 0
        inb1 == IF rcv1 /\ Len(s.inb) < 8 THEN Append(s.inb, in) ELSE s.inb
    IN  [s EXCEPT !.inb = inb1, !.rcv = IF Len(inb1) = 8 THEN FALSE ELSE rcv1]

\* _xfer_isr, second loop: while the RX FIFO is not empty
RECURSIVE spi_isr_rx(_)
spi_isr_rx(s) ==
    IF s.rx = <<>> THEN s
    ELSE spi_isr_rx(spi_receive([s EXCEPT !.rx = Tail(s.rx)], Head(s.rx)))

\* _xfer_isr
xfer_isr(s) == spi_isr_rx(spi_isr_tx(s))

\* ISR(SPI_STC_vect) with in the byte just received (no write collision)
avr_spi_isr(s, in) ==
    IF s.out[1] # 0 /\ s.oi < 8
    THEN spi_put_response(s, <<<<s.out[s.oi + 1], s.oi + 1>>>>)
    ELSE [spi_receive(s, in) EXCEPT !.tx = <<SpiIdle>>]

\* the far end clocks one byte m: the transmitter shifts out its first entry
\* and m is received; the Pico's handler runs when an interrupt condition of
\* SSPIMSC holds, the AVR's after every byte
spi_xfer(f, s, m) ==
    IF f = "pico"
    THEN LET s1 == [s EXCEPT !.tx = Tail(s.tx), !.rx = Append(s.rx, m)]
         IN  IF Len(s1.tx) <= SPI_FIFO_HALF \/ Len(s1.rx) >= SPI_FIFO_HALF
             THEN xfer_isr(s1) ELSE s1
    ELSE avr_spi_isr(s, m)

(***************************************************************************)
(* Boot: main() before the loop / setup().                                 *)
(***************************************************************************)
\* ph_ps2_init as the poll loop wires it: the keyboard emulator is started
\* (ph_ps2_kbd_init -> ph_ps2_kbd_reset) when the PS/2 keyboard role is active
ps2_kbd_started(f, active) ==
    f = "pico" /\ KbdRole(active) = PH_PROTO_OUT1_KBD_PS2

\* the values of the firmware's variables when the main loop is entered,
\* with rec the content of the non-volatile record at power-up / restart
BootVals(f, st, rec) ==
    LET active == outputs_init_active(f, st, rec)
    IN  [nv     |-> outputs_init_nv(f, st, rec),
         active |-> active,
         avail  |-> outputs_avail(f, st),
         leds   |-> IF ps2_kbd_started(f, active) THEN 7 ELSE 0,
         scan   |-> ps2_kbd_started(f, active),
         blink  |-> IF ps2_kbd_started(f, active) THEN 1 ELSE 0]

\* the state in which the main loop is entered, b == BootVals(...)
BootInit(b) ==
    /\ nv = b.nv
    /\ ph_g_outputs_active = b.active
    /\ ph_g_outputs_avail = b.avail
    /\ reset_required = FALSE
    /\ reset_age = 0
    /\ prev_code = PH_PROTO_RESP_NONE
    /\ wire = <<>>
    /\ buf = <<>>
    /\ index = 0
    /\ since_last = 0
    /\ kbd_iface = -1
    /\ mouse_iface = -1
    /\ kbd_mods = 0
    /\ kbd_keys = NoKeys
    /\ kbd_sent = TRUE
    /\ kbd_report = <<0, NoKeys>>
    /\ mouse_buttons = 0
    /\ mouse_abs = <<0, 0>>
    /\ mouse_report = <<"none">>
    /\ ph_g_usb_kbd_leds = 0
    /\ ph_g_usb_kbd_online = TRUE
    /\ ph_g_usb_mouse_online = TRUE
    /\ kbd_prev_online = TRUE
    /\ mouse_prev_online = TRUE
    /\ usb_ready = FALSE
    /\ usb_suspended = FALSE
    /\ ph_ps2_kbd_scanning = b.scan
    /\ ph_ps2_kbd_repeat = 0
    /\ ph_ps2_kbd_repeatmod = FALSE
    /\ ph_ps2_kbd_repeat_us = 91743
    /\ ph_ps2_kbd_delay_ms = 500
    /\ ph_ps2_kbd_repeater = 0
    /\ ps2_alarms = {}
    /\ ph_ps2_is_ctrl = 0
    /\ ps2_kbd_blink = b.blink
    /\ ps2_kbd_last_rx = 0
    /\ ps2_kbd_rx_arg = FALSE
    /\ ps2_tasked = TRUE
    /\ ps2_kbd_qbytes = <<>>
    /\ ph_g_ps2_kbd_leds = b.leds
    /\ ph_g_ps2_kbd_online = FALSE
    /\ ph_g_ps2_mouse_online = FALSE
    /\ ps2_buttons = 0
    /\ ms_mode = MS_MODE_IDLE
    /\ ms_type = MS_TYPE_STANDARD
    /\ ms_input_mode = 0
    /\ ms_rate = 100
    /\ ms_magic_seq = <<0, 0, 0, 0>>
    /\ ms_knock = 0
    /\ ps2_mouse_qbytes = <<>>
    /\ ps2_kbd_qpacks = <<>>
    /\ ps2_kbd_sent = 0
    /\ ps2_kbd_last_tx = 0
    /\ ps2_kbd_busy = 0
    /\ ps2_kbd_tx = <<>>
    /\ ps2_kbd_rx = <<>>
    /\ ps2_mouse_busy = FALSE

\* a restart of the firmware: the same values, taken by the next state
Boot(b) ==
    /\ nv' = b.nv
    /\ ph_g_outputs_active' = b.active
    /\ ph_g_outputs_avail' = b.avail
    /\ reset_required' = FALSE
    /\ reset_age' = 0
    /\ prev_code' = PH_PROTO_RESP_NONE
    /\ wire' = <<>>
    /\ buf' = <<>>
    /\ index' = 0
    /\ since_last' = 0
    /\ kbd_iface' = -1
    /\ mouse_iface' = -1
    /\ kbd_mods' = 0
    /\ kbd_keys' = NoKeys
    /\ kbd_sent' = TRUE
    /\ kbd_report' = <<0, NoKeys>>
    /\ mouse_buttons' = 0
    /\ mouse_abs' = <<0, 0>>
    /\ mouse_report' = <<"none">>
    /\ ph_g_usb_kbd_leds' = 0
    /\ ph_g_usb_kbd_online' = TRUE
    /\ ph_g_usb_mouse_online' = TRUE
    /\ kbd_prev_online' = TRUE
    /\ mouse_prev_online' = TRUE
    /\ usb_ready' = FALSE
    /\ usb_suspended' = FALSE
    /\ ph_ps2_kbd_scanning' = b.scan
    /\ ph_ps2_kbd_repeat' = 0
    /\ ph_ps2_kbd_repeatmod' = FALSE
    /\ ph_ps2_kbd_repeat_us' = 91743
    /\ ph_ps2_kbd_delay_ms' = 500
    /\ ph_ps2_kbd_repeater' = 0
    /\ ps2_alarms' = {}
    /\ ph_ps2_is_ctrl' = 0
    /\ ps2_kbd_blink' = b.blink
    /\ ps2_kbd_last_rx' = 0
    /\ ps2_kbd_rx_arg' = FALSE
    /\ ps2_tasked' = TRUE
    /\ ps2_kbd_qbytes' = <<>>
    /\ ph_g_ps2_kbd_leds' = b.leds
    /\ ph_g_ps2_kbd_online' = FALSE
    /\ ph_g_ps2_mouse_online' = FALSE
    /\ ps2_buttons' = 0
    /\ ms_mode' = MS_MODE_IDLE
    /\ ms_type' = MS_TYPE_STANDARD
    /\ ms_input_mode' = 0
    /\ ms_rate' = 100
    /\ ms_magic_seq' = <<0, 0, 0, 0>>
    /\ ms_knock' = 0
    /\ ps2_mouse_qbytes' = <<>>
    /\ ps2_kbd_qpacks' = <<>>
    /\ ps2_kbd_sent' = 0
    /\ ps2_kbd_last_tx' = 0
    /\ ps2_kbd_busy' = 0
    /\ ps2_kbd_tx' = <<>>
    /\ ps2_kbd_rx' = <<>>
    /\ ps2_mouse_busy' = FALSE

(***************************************************************************)
(* Steps of the firmware and of its environment.                           *)
(***************************************************************************)
\* a step of the environment runs no callback and writes no response
EnvObs ==
    /\ out' = <<>>
    /\ dispatched' = "none"
    /\ cb' = "none"
    /\ rebooted' = FALSE
    /\ req' = <<>>
    /\ UNCHANGED last_resp

\* the poll loop calling the transport task whether or not a reset is pending
ComRunsAlways == TRUE

\* main loop of main.c: the transport task is skipped once a reset is pending
ComRuns == fw = "pico" => ~reset_required

\* ph_com_uart_task / Serial::periodic, a byte is readable and _index < 7
ComByte ==
    /\ ComRuns
    /\ wire # <<>>
    /\ index < 7
    /\ wire' = Tail(wire)
    /\ buf' = Append(buf, Head(wire))
    /\ index' = index + 1
    /\ since_last' = 0                              \* _last_ts = time_us_64()
    /\ EnvObs
    /\ UNCHANGED <<cfgVars, outVars, engVars, usbVars, ps2Vars>>

\* ph_com_uart_task / Serial::periodic, a byte is readable and _index == 7:
\* _data_cb(_buf), i.e. _send_response(_handle_request(data)), then _index = 0
ComData ==
    /\ ComRuns
    /\ wire # <<>>
    /\ index = 7
    /\ LET data == Append(buf, Head(wire))
           args == SubSeq(data, 3, 6)
       IN  \E h \in {request_handler(fw, data)},
              code \in {resolve_code(request_code(fw, data), prev_code)} :
             LET sets == h \in {"set_kbd", "set_mouse"}
                 rr   == reset_required \/ sets
                 age  == IF sets THEN 0 ELSE reset_age
             IN  /\ cb' = "data"
                 /\ req' = data
                 /\ dispatched' = h
                 /\ IF reset_fires(code, rr, age)
                    THEN /\ Boot(BootVals(fw, straps, RunCfgHandler(h, args)))
                         /\ out' = <<>>
                         /\ last_resp' = <<>>
                         /\ rebooted' = TRUE
                         /\ UNCHANGED cfgVars
                    ELSE /\ nv' = RunCfgHandler(h, args)
                         /\ reset_required' = rr
                         /\ reset_age' = age
                         /\ prev_code' = code
                         /\ RunHidHandler(h, args)
                         /\ \E resp \in {Response(code, rr)} :
                               out' = <<resp>> /\ last_resp' = resp
                         /\ rebooted' = FALSE
                         /\ wire' = Tail(wire)
                         /\ buf' = <<>>
                         /\ index' = 0
                         /\ since_last' = 0
                         /\ UNCHANGED <<cfgVars, ph_g_outputs_active, ph_g_outputs_avail,
                                        usbEnvVars, ps2EnvVars>>

\* ph_com_uart_task / Serial::periodic, nothing readable, a frame is begun
\* and the timeout has passed: _timeout_cb(), then _index = 0
ComTimeout ==
    /\ ComRuns
    /\ wire = <<>>
    /\ index > 0
    /\ timed_out(since_last, _TIMEOUT_US)
    /\ prev_code' = PH_PROTO_RESP_TIMEOUT_ERROR
    /\ \E resp \in {Response(PH_PROTO_RESP_TIMEOUT_ERROR, reset_required)} :
          out' = <<resp>> /\ last_resp' = resp
    /\ cb' = "timeout"
    /\ req' = <<>>
    /\ dispatched' = "none"
    /\ rebooted' = FALSE
    /\ buf' = <<>>
    /\ index' = 0
    /\ since_last' = 0
    /\ UNCHANGED <<cfgVars, outVars, reset_required, reset_age, wire, usbVars, ps2Vars>>

\* time passes: the age of the last received byte and of the reset request
Tick ==
    /\ \/ index > 0 /\ since_last < TickCap(_TIMEOUT_US)
       \/ fw = "arduino" /\ reset_required /\ reset_age < TickCap(RESET_TIMEOUT)
    /\ since_last' = IF index > 0 /\ since_last < TickCap(_TIMEOUT_US)
                     THEN since_last + 1 ELSE since_last
    /\ reset_age' = IF fw = "arduino" /\ reset_required /\ reset_age < TickCap(RESET_TIMEOUT)
                    THEN reset_age + 1 ELSE reset_age
    /\ EnvObs
    /\ UNCHANGED <<cfgVars, outVars, reset_required, prev_code, wire, buf, index,
                   usbVars, ps2Vars>>

\* Pico: the watchdog armed by watchdog_reboot(0, 0, 100) restarts the
\* firmware; the scratch register holding the record survives
Reboot ==
    /\ fw = "pico"
    /\ reset_required
    /\ Boot(BootVals(fw, straps, nv))
    /\ out' = <<>>
    /\ dispatched' = "none"
    /\ cb' = "none"
    /\ rebooted' = TRUE
    /\ req' = <<>>
    /\ last_resp' = <<>>
    /\ UNCHANGED cfgVars

\* tud_descriptor_configuration_cb -> _hid_tud_descriptor_configuration_cb:
\* the USB host enumerates the device, the interface numbers are assigned
UsbEnumerate ==
    /\ fw = "pico"
    /\ ~straps.bridge
    /\ PH_O_IS_KBD_USB \/ PH_O_IS_MOUSE_USB         \* tud_init was called
    /\ kbd_iface < 0 /\ mouse_iface < 0             \* !filled
    /\ kbd_iface' = IF PH_O_IS_KBD_USB THEN 0 ELSE -1
    /\ mouse_iface' = IF PH_O_IS_MOUSE_USB THEN (IF PH_O_IS_KBD_USB THEN 1 ELSE 0) ELSE -1
    /\ EnvObs
    /\ UNCHANGED <<cfgVars, outVars, engVars, comVars, usbKbdVars, usbMouseVars,
                   ph_g_usb_kbd_leds, ph_g_usb_kbd_online, ph_g_usb_mouse_online,
                   kbd_prev_online, mouse_prev_online, usb_ready, usb_suspended, ps2Vars>>

\* the USB host changes the bus state seen by tud_ready() / tud_suspended()
\* (Arduino: by USBComposite)
UsbHost ==
    /\ IF fw = "pico" THEN kbd_iface >= 0 \/ mouse_iface >= 0
       ELSE ph_g_outputs_active # 0
    /\ \E r \in BOOLEAN, sp \in BOOLEAN :
          /\ <<r, sp>> # <<usb_ready, usb_suspended>>
          /\ fw = "arduino" => sp = usb_suspended
          /\ usb_ready' = r
          /\ usb_suspended' = sp
    /\ EnvObs
    /\ UNCHANGED <<cfgVars, outVars, engVars, comVars, usbKbdVars, usbMouseVars,
                   kbd_iface, mouse_iface, ph_g_usb_kbd_leds, ph_g_usb_kbd_online,
                   ph_g_usb_mouse_online, kbd_prev_online, mouse_prev_online, ps2Vars>>

LedValues == {0, KEYBOARD_LED_CAPSLOCK}

\* tud_hid_set_report_cb: the USB host sets the keyboard LEDs
\* (Arduino: the value _keyboard.getLEDs() returns changes)
HostSetLeds ==
    /\ IF fw = "pico" THEN kbd_iface >= 0
       ELSE KbdRole(ph_g_outputs_active) = PH_PROTO_OUT1_KBD_USB
    /\ \E l \in LedValues \ {ph_g_usb_kbd_leds} : ph_g_usb_kbd_leds' = l
    /\ EnvObs
    /\ UNCHANGED <<cfgVars, outVars, engVars, comVars, usbKbdVars, usbMouseVars,
                   kbd_iface, mouse_iface, ph_g_usb_kbd_online, ph_g_usb_mouse_online,
                   kbd_prev_online, mouse_prev_online, usb_ready, usb_suspended, ps2Vars>>

\* CHECK_IFACE of ph_usb_task: the online flag it leaves; long tells
\* whether the interface has been offline for more than 50 ms
check_iface(online, prev_online, flag, long) ==
    IF online THEN TRUE
    ELSE IF ~prev_online /\ long THEN FALSE
    ELSE flag

\* ph_usb_task, the part run every millisecond
UsbTask ==
    /\ fw = "pico"
    /\ straps.bridge \/ PH_O_IS_KBD_USB \/ PH_O_IS_MOUSE_USB
    /\ \E long \in BOOLEAN, mlong \in BOOLEAN :
          /\ IF kbd_iface >= 0
             THEN /\ ph_g_usb_kbd_online' =
                        check_iface(usb_ready, kbd_prev_online, ph_g_usb_kbd_online, long)
                  /\ kbd_prev_online' = usb_ready
                  /\ kbd_sync_report(usb_ready /\ ~ph_g_usb_kbd_online, kbd_mods, kbd_keys)
             ELSE UNCHANGED <<ph_g_usb_kbd_online, kbd_prev_online, usbKbdVars>>
          /\ IF mouse_iface >= 0
             THEN /\ ph_g_usb_mouse_online' =
                        check_iface(usb_ready, mouse_prev_online, ph_g_usb_mouse_online, mlong)
                  /\ mouse_prev_online' = usb_ready
             ELSE UNCHANGED <<ph_g_usb_mouse_online, mouse_prev_online>>
    /\ EnvObs
    /\ UNCHANGED <<cfgVars, outVars, engVars, comVars, usbMouseVars, kbd_iface,
                   mouse_iface, ph_g_usb_kbd_leds, usb_ready, usb_suspended, ps2Vars>>

\* the PS/2 emulators run when their role is active
Ps2KbdRuns == ps2_kbd_started(fw, ph_g_outputs_active)
Ps2MouseRuns == fw = "pico" /\ PH_O_IS_MOUSE_PS2

MaxBlink == 2                           \* pending alarms of ph_ps2_kbd_reset that are tracked

ps2KbdRest == <<ph_ps2_kbd_repeatmod, ph_ps2_kbd_repeater, ps2_alarms, ph_ps2_is_ctrl,
                ps2PhyVars>>
ps2MouseVars == <<ph_g_ps2_mouse_online, ps2_buttons, ms_mode, ms_type, ms_input_mode,
                  ms_rate, ms_magic_seq, ms_knock, ps2_mouse_qbytes, ps2_mouse_busy>>
ps2KbdVars == <<ph_ps2_kbd_scanning, ph_ps2_kbd_repeat, ph_ps2_kbd_repeatmod,
                ph_ps2_kbd_repeat_us, ph_ps2_kbd_delay_ms, ps2_alarms,
                ph_ps2_kbd_repeater, ph_ps2_is_ctrl, ps2_kbd_blink, ps2_kbd_last_rx, ps2_kbd_rx_arg,
                ps2_kbd_qbytes, ph_g_ps2_kbd_leds, ph_g_ps2_kbd_online,
                ps2PhyVars, ps2_kbd_busy>>

\* observer of the PS/2 host: the byte it sends now is the argument of the
\* byte before it, which was sent as a command byte and is Set-LEDs (0xED) or
\* Set-Typematic (0xF3)
rx_is_arg == ~ps2_kbd_rx_arg /\ ps2_kbd_last_rx \in {237, 243}

\* ph_ps2_kbd_task, a byte from the PS/2 host has arrived: the queues are
\* emptied and ph_ps2_kbd_receive(byte, last_rx) runs, then the online flag
\* follows scanning and the bus
Ps2KbdHostByte(byte) ==
    /\ Ps2KbdRuns
    /\ byte = 255 => ps2_kbd_blink < MaxBlink
    /\ ph_ps2_kbd_receive(byte, ps2_kbd_last_rx)
    /\ ps2_kbd_last_rx' = byte
    /\ ps2_kbd_rx_arg' = rx_is_arg
    /\ \E busy \in {0, 1} :
          /\ ps2_kbd_busy' = busy
          /\ ph_g_ps2_kbd_online' = (ph_ps2_kbd_scanning' /\ busy = 0)
    /\ ps2_tasked' = TRUE
    /\ EnvObs
    /\ UNCHANGED <<cfgVars, outVars, engVars, comVars, usbVars, ps2KbdRest, ps2MouseVars>>

\* ph_ps2_kbd_task with no byte from the host: the queued bytes are packed
\* for transmission and the online flag follows scanning and the bus
Ps2KbdTask ==
    /\ Ps2KbdRuns
    /\ ps2_kbd_qbytes' = <<>>
    /\ \E busy \in {0, 1} :
          /\ ps2_kbd_busy' = busy
          /\ ph_g_ps2_kbd_online' = (ph_ps2_kbd_scanning /\ busy = 0)
    /\ ps2_tasked' = TRUE
    /\ EnvObs
    /\ UNCHANGED <<cfgVars, outVars, engVars, comVars, usbVars, ps2MouseVars, ps2PhyVars,
                   ph_ps2_kbd_scanning, ph_ps2_kbd_repeat, ph_ps2_kbd_repeatmod,
                   ph_ps2_kbd_repeat_us, ph_ps2_kbd_delay_ms, ps2_alarms,
                   ph_ps2_kbd_repeater, ph_ps2_is_ctrl, ps2_kbd_blink, ps2_kbd_last_rx, ps2_kbd_rx_arg,
                   ph_g_ps2_kbd_leds>>

\* a blink callback that sends the self-test byte twice
ph_ps2_blink_send_twice(q) == q_add(q_add(q, 170), 170)

\* the queue after ph_ps2_kbd_send(0xaa) of ph_ps2_blink_callback
ph_ps2_blink_send(q) == q_add(q, 170)

\* ph_ps2_blink_callback, run by the alarm pool 500 ms after ph_ps2_kbd_reset
Ps2BlinkAlarm ==
    /\ ps2_kbd_blink > 0
    /\ ps2_kbd_blink' = ps2_kbd_blink - 1
    /\ ph_g_ps2_kbd_leds' = 0
    /\ ps2_kbd_qbytes' = ph_ps2_blink_send(ps2_kbd_qbytes)
    /\ EnvObs
    /\ UNCHANGED <<cfgVars, outVars, engVars, comVars, usbVars, ps2MouseVars,
                   ph_ps2_kbd_scanning, ph_ps2_kbd_repeat, ph_ps2_kbd_repeat_us,
                   ph_ps2_kbd_delay_ms, ps2_kbd_last_rx, ps2_kbd_rx_arg, ps2_tasked, ps2KbdRest,
                   ph_g_ps2_kbd_online, ps2_kbd_busy>>

\* the prefix test of the press applied to ph_ps2_kbd_repeat as it stands
repeat_mod_e0_key(repeat) == IF repeat > 2 /\ repeat # 5 THEN <<224>> ELSE <<>>

\* the prefix ph_ps2_repeat_callback sends before a modifier's make code
repeat_mod_e0(repeat) == IF repeat > 3 /\ repeat # 6 THEN <<224>> ELSE <<>>

\* the bytes ph_ps2_repeat_callback sends for the repeat key
repeat_make(repeat, repeatmod) ==
    IF repeatmod
    THEN repeat_mod_e0(repeat) \o <<ph_ps2_mod2ps2[repeat]>>
    ELSE maybe_e0(repeat) \o <<ph_ps2_hid2ps2[repeat + 1]>>

\* ph_ps2_repeat_callback, run by the alarm pool for a pending alarm that is
\* due: a positive return value sets the same alarm again, 0 ends it
Ps2RepeatAlarm ==
    /\ \E a \in ps2_alarms :
          IF ph_ps2_kbd_repeat # 0
          THEN /\ ps2_kbd_qbytes' =
                     q_add_all(ps2_kbd_qbytes,
                               repeat_make(ph_ps2_kbd_repeat, ph_ps2_kbd_repeatmod))
               /\ ps2_alarms' = (ps2_alarms \ {a})
                                   \cup {[id |-> a.id, wait |-> ph_ps2_kbd_repeat_us]}
               /\ UNCHANGED ph_ps2_kbd_repeater
          ELSE /\ ph_ps2_kbd_repeater' = 0
               /\ ps2_alarms' = ps2_alarms \ {a}
               /\ UNCHANGED ps2_kbd_qbytes
    /\ EnvObs
    /\ UNCHANGED <<cfgVars, outVars, engVars, comVars, usbVars, ps2MouseVars,
                   ph_ps2_kbd_scanning, ph_ps2_kbd_repeat, ph_ps2_kbd_repeatmod,
                   ph_ps2_kbd_repeat_us, ph_ps2_kbd_delay_ms,
                   ph_ps2_is_ctrl, ps2_kbd_blink, ps2_kbd_last_rx, ps2_kbd_rx_arg, ps2_tasked,
                   ph_g_ps2_kbd_leds, ph_g_ps2_kbd_online, ps2PhyVars, ps2_kbd_busy>>

\* the sample rates of the wheel handshake, in the order a host sends them
KnockRates == <<200, 100, 80, 200, 200, 80>>

\* observer of the PS/2 host: how many Set-Sample-Rate commands in a row, the
\* first one received with device type Standard and none separated by another
\* command, have carried the first rates of KnockRates
ms_knock_next(byte) ==
    IF ms_input_mode = 1
    THEN IF ms_knock < Len(KnockRates) /\ byte = KnockRates[ms_knock + 1]
            /\ (ms_knock = 0 => ms_type = MS_TYPE_STANDARD)
         THEN ms_knock + 1
         ELSE IF byte = KnockRates[1] /\ ms_type = MS_TYPE_STANDARD THEN 1 ELSE 0
    ELSE IF byte = 243 THEN ms_knock ELSE 0

\* ph_ps2_phy_task of the mouse, a byte from the PS/2 host has arrived
Ps2MouseHostByte(byte) ==
    /\ Ps2MouseRuns
    /\ ph_ps2_mouse_receive(byte)
    /\ ms_knock' = ms_knock_next(byte)
    /\ ps2_mouse_busy' \in BOOLEAN
    /\ ps2_tasked' = TRUE
    /\ EnvObs
    /\ UNCHANGED <<cfgVars, outVars, engVars, comVars, usbVars, ps2KbdVars,
                   ph_g_ps2_mouse_online, ps2_buttons>>

\* ph_ps2_mouse_task with no byte from the host
Ps2MouseTask ==
    /\ Ps2MouseRuns
    /\ ps2_mouse_qbytes' = <<>>
    /\ ps2_mouse_busy' \in BOOLEAN
    /\ ps2_tasked' = TRUE
    /\ EnvObs
    /\ UNCHANGED <<cfgVars, outVars, engVars, comVars, usbVars, ps2KbdVars,
                   ph_g_ps2_mouse_online, ps2_buttons, ms_mode, ms_type, ms_input_mode,
                   ms_rate, ms_magic_seq, ms_knock>>

(***************************************************************************)
(* The link engine with its environment: specification Spec.               *)
(***************************************************************************)
\* strap settings of the Pico board (a strap pulled low reads TRUE)
PicoStraps(ps2, rel) ==
    [ps2_enabled |-> ps2, ps2_kbd |-> ps2, ps2_mouse |-> ps2, bridge |-> FALSE,
     usb_disabled |-> FALSE, usb_enable_w98 |-> FALSE, usb_mouse_rel |-> rel,
     usb_mouse_w98 |-> FALSE]

\* build flags of the Arduino firmware (STM32 board)
ArduinoBuild(ps2, mouse) ==
    [with_usb |-> TRUE, with_ps2 |-> ps2, with_w98 |-> FALSE, set_kbd |-> "usb",
     set_mouse |-> mouse, avr |-> FALSE]

\* build flags of the Arduino firmware on an AVR board with the PS/2
\* keyboard as the default (HID_WITH_PS2, HID_SET_PS2_KBD)
AvrBuild ==
    [with_usb |-> TRUE, with_ps2 |-> TRUE, with_w98 |-> FALSE, set_kbd |-> "ps2",
     set_mouse |-> "abs", avr |-> TRUE]

\* a record that was never written
NvBlank(f) == IF f = "pico" THEN <<0, 0, 0, 0>> ELSE <<0, 0, 0, 0, 0, 0, 0, 0>>

LinkConfigs ==
    {<<"pico", PicoStraps(FALSE, FALSE)>>, <<"pico", PicoStraps(TRUE, FALSE)>>,
     <<"arduino", ArduinoBuild(FALSE, "abs")>>}

\* a valid frame with its last byte changed, and one with a wrong first byte
BadCrc(frame) == [frame EXCEPT ![8] = (frame[8] + 1) % 256]
BadMagic(frame) == [frame EXCEPT ![1] = PH_PROTO_MAGIC_RESP]

\* the frames the far end sends
LinkFrames ==
    {MkRequest(PH_PROTO_CMD_PING, 0, 0, 0, 0),
     MkRequest(PH_PROTO_CMD_REPEAT, 0, 0, 0, 0),
     MkRequest(PH_PROTO_CMD_SET_KBD, PH_PROTO_OUT1_KBD_PS2, 0, 0, 0),
     MkRequest(PH_PROTO_CMD_CLEAR_HID, 0, 0, 0, 0),
     MkRequest(PH_PROTO_CMD_KBD_KEY, 1, 1, 0, 0),
     MkRequest(PH_PROTO_CMD_MOUSE_BUTTON, 136, 0, 0, 0),
     MkRequest(153, 0, 0, 0, 0),
     BadCrc(MkRequest(PH_PROTO_CMD_KBD_KEY, 1, 1, 0, 0)),
     BadMagic(MkRequest(PH_PROTO_CMD_KBD_KEY, 1, 1, 0, 0))}

\* how many bytes of a frame the far end has sent when it pauses
SendLens == {3, 8}
AllSendLens == 1 .. 8

\* bytes the PS/2 host sends to the keyboard and to the mouse
Ps2KbdBytes == {237, 2, 244, 245}
Ps2MouseBytes == {244, 245}

\* the far end writes a frame to the link, up to a pause or to its end; after
\* a pause it goes on with the frame it began
HostSend ==
    /\ wire = <<>>
    /\ \E frame \in peer_frames, n \in peer_pauses :
          /\ n > index
          /\ SubSeq(frame, 1, index) = buf
          /\ wire' = SubSeq(frame, index + 1, n)
    /\ EnvObs
    /\ UNCHANGED <<cfgVars, outVars, engVars, buf, index, since_last, usbVars, ps2Vars>>

\* power-up of one of the boards configs, each <<firmware, straps, record>>,
\* on a link whose far end sends the given frames with the given pauses
InitOf(configs, frames, pauses) ==
    /\ peer_frames = frames
    /\ peer_pauses = pauses
    /\ key_events = 0
    /\ keys_used = 0
    /\ rollover = "idle"
    /\ held_buttons = {}
    /\ loop_pc = "poll"
    /\ ps2_clock_low = FALSE
    /\ \E c \in configs :
          /\ fw = c[1]
          /\ straps = c[2]
          /\ nv_powerup = c[3]
          /\ BootInit(BootVals(c[1], c[2], c[3]))
          /\ SpiInit(c[1])
    /\ out = <<>>
    /\ dispatched = "none"
    /\ cb = "none"
    /\ rebooted = FALSE
    /\ req = <<>>
    /\ last_resp = <<>>

Init == InitOf({<<c[1], c[2], NvBlank(c[1])>> : c \in LinkConfigs}, LinkFrames, SendLens)

\* the link engine with the far end of the link, the clock and the USB host
\* that enumerates the device and sets the keyboard LEDs
Next ==
    \/ HostSend
    \/ ComByte
    \/ ComData
    \/ ComTimeout
    \/ Tick
    \/ Reboot
    \/ UsbEnumerate
    \/ HostSetLeds

Spec == Init /\ [][Next]_vars


(***************************************************************************)
(* Frame acceptance.                                                       *)
(***************************************************************************)
\* the frame handed to the data callback by the last step is well formed
ReqWellFormed ==
    /\ req[1] = PH_PROTO_MAGIC
    /\ ph_crc16(req, 6) = ph_merge8_u16(req[7], req[8])

\* the frame handed to the data callback by this step is well formed
ReqWellFormedNext ==
    /\ req'[1] = PH_PROTO_MAGIC
    /\ ph_crc16(req', 6) = ph_merge8_u16(req'[7], req'[8])

\* the last step wrote exactly one response frame, with this status byte
Answered(code) ==
    /\ Len(out) = 1
    /\ out[1][1] = PH_PROTO_MAGIC_RESP
    /\ out[1][2] = code

\* C1: a command handler runs only for a frame whose first byte is the magic
\* and whose CRC-16 over bytes 0..5 equals the big-endian value of bytes
\* 6..7; every other frame is answered with CRC_ERROR and runs no handler
C1_OnlyWellFormedDispatched ==
    cb = "data" =>
        /\ dispatched # "none" => ReqWellFormed
        /\ ~ReqWellFormed => dispatched = "none" /\ Answered(PH_PROTO_RESP_CRC_ERROR)

\* C1 witness: a frame with the right magic and a wrong CRC was answered
\* with CRC_ERROR
C1_Witness ==
    /\ cb = "data"
    /\ req[1] = PH_PROTO_MAGIC
    /\ ~ReqWellFormed
    /\ Answered(PH_PROTO_RESP_CRC_ERROR)

(***************************************************************************)
(* Single-bit corruption of frames: specification SpecFlip.                *)
(***************************************************************************)
\* well-formed frames the far end starts from
FlipBase ==
    {MkRequest(PH_PROTO_CMD_PING, 0, 0, 0, 0),
     MkRequest(PH_PROTO_CMD_SET_CONNECTED, 1, 0, 0, 0),
     MkRequest(PH_PROTO_CMD_KBD_KEY, 4, 1, 0, 0),
     MkRequest(PH_PROTO_CMD_MOUSE_ABS, 128, 0, 127, 255),
     MkRequest(PH_PROTO_CMD_MOUSE_WHEEL, 0, 255, 0, 0)}

\* bit positions of a frame: bit k is bit k % 8 of byte k \div 8
FrameBits == 0 .. 63

\* frame with bit k inverted
FlipBit(frame, k) ==
    [frame EXCEPT ![(k \div 8) + 1] = BitXor(@, 2 ^ (k % 8))]

FlipFrames == {FlipBit(f, k) : f \in FlipBase, k \in FrameBits}

InitFlip ==
    InitOf({<<"pico", PicoStraps(FALSE, FALSE), NvBlank("pico")>>,
            <<"arduino", ArduinoBuild(FALSE, "abs"), NvBlank("arduino")>>},
           FlipBase \cup FlipFrames, SendLens)

NextFlip ==
    \/ HostSend
    \/ ComByte
    \/ ComData

SpecFlip == InitFlip /\ [][NextFlip]_vars

\* C2: a well-formed frame with any single one of its 64 bits inverted is
\* answered with CRC_ERROR and no handler runs for it
C2_SingleBitFlipRejected ==
    cb = "data" /\ (\E f \in FlipBase, k \in FrameBits : req = FlipBit(f, k)) =>
        dispatched = "none" /\ Answered(PH_PROTO_RESP_CRC_ERROR)

\* C2 witness: the key frame with the lowest bit of its last payload byte
\* inverted was received and answered with CRC_ERROR
C2_Witness ==
    /\ cb = "data"
    /\ req = FlipBit(MkRequest(PH_PROTO_CMD_KBD_KEY, 4, 1, 0, 0), 40)
    /\ dispatched = "none"
    /\ Answered(PH_PROTO_RESP_CRC_ERROR)

(***************************************************************************)
(* Byte assembly, timeout and responses (specifications Spec, SpecTimeout).*)
(***************************************************************************)
\* C3: the receive index stays in 0..7; the 8th byte of a frame runs the
\* request handler once and is answered with exactly one response frame,
\* after which the index is 0; a step that runs no callback writes nothing
C3_OneResponsePerFrame ==
    /\ index \in 0 .. 7
    /\ cb = "data" => Len(out) = 1 /\ index = 0
    /\ cb = "none" => out = <<>>

\* frames of a far end that may stall in the middle of any of them
TimeoutFrames ==
    {MkRequest(PH_PROTO_CMD_PING, 0, 0, 0, 0),
     MkRequest(PH_PROTO_CMD_KBD_KEY, 1, 1, 0, 0),
     MkRequest(PH_PROTO_CMD_MOUSE_REL, 1, 255, 0, 0),
     BadCrc(MkRequest(PH_PROTO_CMD_PING, 0, 0, 0, 0))}

InitTimeout ==
    InitOf({<<"pico", PicoStraps(FALSE, FALSE), NvBlank("pico")>>,
            <<"arduino", ArduinoBuild(FALSE, "abs"), NvBlank("arduino")>>},
           TimeoutFrames, AllSendLens)

NextTimeout ==
    \/ HostSend
    \/ ComByte
    \/ ComData
    \/ ComTimeout
    \/ Tick

\* ComTimeout as seen on the index and the callback
ComTimeoutSeen ==
    /\ ComRuns
    /\ wire = <<>>
    /\ index > 0
    /\ timed_out(since_last, _TIMEOUT_US)
    /\ index' = 0
    /\ cb' = "timeout"

\* the transport where the poll loop keeps calling the transport task, so
\* that a timeout that stays due is handled, and where time keeps passing
SpecTimeout ==
    /\ InitTimeout
    /\ [][NextTimeout]_vars
    /\ WF_<<index, cb>>(ComTimeoutSeen)
    /\ WF_vars(Tick)

IsPong(resp) == resp # <<>> /\ BitAnd(resp[2], PH_PROTO_PONG_OK) # 0

\* this step dispatches a well-formed REPEAT frame and the response written
\* last before it was a PONG
RepeatAfterPong ==
    /\ cb' = "data"
    /\ req'[2] = PH_PROTO_CMD_REPEAT
    /\ ReqWellFormedNext
    /\ IsPong(last_resp)

\* the state a REPEAT has to leave alone
repeatFrame == <<nv, ph_g_outputs_active, ph_g_outputs_avail, reset_required,
                 hidVars, usbEnvVars, ps2EnvVars>>

RespStatus(resp) ==
    IF HasBit(resp[2], PH_PROTO_PONG_OK) THEN PH_PROTO_PONG_OK ELSE resp[2]

\* the frame handed to the data callback by this step is a valid REPEAT
ValidRepeatNext == ReqWellFormedNext /\ req'[2] = PH_PROTO_CMD_REPEAT

\* C34: the status remembered for REPEAT is never 0 (it is NONE, PONG,
\* CRC_ERROR, INVALID_ERROR or TIMEOUT_ERROR) and the handler returns 0 only
\* for a valid REPEAT frame; the response to a REPEAT carries the status of
\* the response written before it, NONE (0x24) if none was written since
\* start; every other frame is answered with PONG, CRC_ERROR or
\* INVALID_ERROR and a timeout with TIMEOUT_ERROR
C34_RepeatStatus ==
    [][/\ prev_code' \in {PH_PROTO_RESP_NONE, PH_PROTO_PONG_OK, PH_PROTO_RESP_CRC_ERROR,
                         PH_PROTO_RESP_INVALID_ERROR, PH_PROTO_RESP_TIMEOUT_ERROR}
       /\ cb' = "data" => (request_code(fw, req') = 0 <=> ValidRepeatNext)
       /\ cb' = "data" /\ out' # <<>> =>
             /\ prev_code' = RespStatus(out'[1])
             /\ IF ValidRepeatNext
                THEN RespStatus(out'[1]) = IF last_resp = <<>> THEN PH_PROTO_RESP_NONE
                                           ELSE RespStatus(last_resp)
                ELSE RespStatus(out'[1]) \in {PH_PROTO_PONG_OK, PH_PROTO_RESP_CRC_ERROR,
                                              PH_PROTO_RESP_INVALID_ERROR}
       /\ cb' = "timeout" =>
             /\ Len(out') = 1
             /\ RespStatus(out'[1]) = PH_PROTO_RESP_TIMEOUT_ERROR
             /\ prev_code' = PH_PROTO_RESP_TIMEOUT_ERROR]_vars

\* C34 witness: a valid REPEAT was answered with TIMEOUT_ERROR, the status
\* of the timeout before it
C34_Witness ==
    /\ cb = "data"
    /\ ReqWellFormed
    /\ req[2] = PH_PROTO_CMD_REPEAT
    /\ Answered(PH_PROTO_RESP_TIMEOUT_ERROR)

\* status bytes of the error responses
ErrorCodes ==
    {PH_PROTO_RESP_CRC_ERROR, PH_PROTO_RESP_INVALID_ERROR, PH_PROTO_RESP_TIMEOUT_ERROR}

\* the state an error must leave alone: the persisted record, the reset
\* request, the USB keys, modifiers and mouse buttons, the PS/2 sessions
errorFrame == <<nv, reset_required, kbd_keys, kbd_mods, mouse_buttons, ps2Vars>>

\* C7: a frame that fails validation is answered with CRC_ERROR, a
\* well-formed frame with an unknown command with INVALID_ERROR, a timeout
\* with TIMEOUT_ERROR, and a step that answers with one of these codes
\* leaves the record, the reset request and the backends as they were
C7_ErrorsReportedAndHarmless ==
    [][/\ cb' = "data" /\ ~ReqWellFormedNext => Answered(PH_PROTO_RESP_CRC_ERROR)'
       /\ cb' = "data" /\ ReqWellFormedNext /\ req'[2] \notin KnownCmds \cup {PH_PROTO_CMD_REPEAT}
              => Answered(PH_PROTO_RESP_INVALID_ERROR)'
       /\ cb' = "timeout" => Answered(PH_PROTO_RESP_TIMEOUT_ERROR)'
       /\ out' # <<>> /\ out'[1][2] \in ErrorCodes => UNCHANGED errorFrame]_vars

\* C7 witness: an error was answered while a key and a mouse button were held
C7_Witness ==
    /\ out # <<>>
    /\ out[1][2] \in ErrorCodes
    /\ kbd_keys # NoKeys
    /\ mouse_buttons # 0

(***************************************************************************)
(* The persisted output configuration: specification SpecOutputs.          *)
(***************************************************************************)
\* a well-formed record holding the role byte
RecordOf(f, role) == outputs_write(f, NvBlank(f), 255, role, TRUE)

\* last byte of the record
RecLast(f) == RecCrcLen(f) + 2

\* contents of the storage at power-up: never written, a record with a
\* wrong magic, a record with a wrong CRC, a well-formed record
NvContents(f) ==
    {NvBlank(f),
     [RecordOf(f, 17) EXCEPT ![1] = PH_PROTO_MAGIC_RESP],
     [RecordOf(f, 17) EXCEPT ![2] = 9],
     RecordOf(f, 17)}

\* boards without and with the PS/2 capability
OutputConfigs ==
    {<<"pico", PicoStraps(FALSE, FALSE)>>, <<"pico", PicoStraps(TRUE, FALSE)>>,
     <<"arduino", ArduinoBuild(FALSE, "abs")>>}

\* payload bytes of SET_KEYBOARD and SET_MOUSE, with and without bits
\* outside the mask of the command
KbdPayloads == {PH_PROTO_OUT1_KBD_PS2, 27}
MousePayloads == {PH_PROTO_OUT1_MOUSE_USB_ABS, PH_PROTO_OUT1_MOUSE_PS2}

OutputFrames ==
    {MkRequest(PH_PROTO_CMD_PING, 0, 0, 0, 0)}
    \cup {MkRequest(PH_PROTO_CMD_SET_KBD, b, 0, 0, 0) : b \in KbdPayloads}
    \cup {MkRequest(PH_PROTO_CMD_SET_MOUSE, b, 0, 0, 0) : b \in MousePayloads}

InitOutputs ==
    InitOf(UNION {{<<c[1], c[2], rec>> : rec \in NvContents(c[1])} : c \in OutputConfigs},
           OutputFrames, {8})

NextOutputs ==
    \/ HostSend
    \/ ComByte
    \/ ComData
    \/ Tick
    \/ Reboot

SpecOutputs == InitOutputs /\ [][NextOutputs]_vars

\* the record passes the magic and CRC test of _read_outputs
RecordValid(f, rec) ==
    /\ rec[1] = PH_PROTO_MAGIC
    /\ ph_crc16(rec, RecCrcLen(f)) = ph_merge8_u16(rec[RecLast(f) - 1], rec[RecLast(f)])

\* this step runs the SET_KEYBOARD / SET_MOUSE handler with the given mask
WriteStep(h) == cb' = "data" /\ dispatched' = h

\* C6: the non-forced write of SET_KEYBOARD / SET_MOUSE stores a role byte
\* whose bits outside the mask of the command are those of the role byte
\* stored before, whatever the payload byte
C6_WritePreservesUnmasked ==
    [][/\ WriteStep("set_kbd") =>
              BitAnd(nv'[2], BitNot8(PH_PROTO_OUT1_KBD_MASK))
                  = BitAnd(nv[2], BitNot8(PH_PROTO_OUT1_KBD_MASK))
       /\ WriteStep("set_mouse") =>
              BitAnd(nv'[2], BitNot8(PH_PROTO_OUT1_MOUSE_MASK))
                  = BitAnd(nv[2], BitNot8(PH_PROTO_OUT1_MOUSE_MASK))]_vars

\* C8: whatever the storage held at power-up, the record passes the magic
\* and CRC test once the outputs are initialised and after every
\* SET_KEYBOARD / SET_MOUSE; a corrupt record is not reported on the link:
\* a well-formed frame with a known command is never answered with an error
C8_RecordAlwaysValid ==
    /\ RecordValid(fw, nv)
    /\ cb = "data" /\ ReqWellFormed /\ req[2] \in KnownCmds /\ out # <<>>
           => IsPong(out[1])

\* C8 witness: the storage held no valid record at power-up, and a PING is
\* answered with a PONG
C8_Witness ==
    /\ ~RecordValid(fw, nv_powerup)
    /\ cb = "data"
    /\ req[2] = PH_PROTO_CMD_PING
    /\ Len(out) = 1
    /\ IsPong(out[1])
    /\ RecordValid(fw, nv)

\* C9: on a board without the PS/2 capability a SET_MOUSE that selects the
\* PS/2 mouse leaves the mouse bits of the persisted record as they were,
\* and a restart with a record that selects the PS/2 mouse leaves the
\* active mouse role as it was
C9_NoPs2MouseWithoutPs2 ==
    [][/\ /\ WriteStep("set_mouse")
          /\ MouseRole(req'[3]) = PH_PROTO_OUT1_MOUSE_PS2
          /\ ~PH_O_HAS_PS2
          => MouseRole(nv'[2]) = MouseRole(nv[2])
       /\ /\ rebooted'
          /\ ~PH_O_HAS_PS2
          /\ MouseRole(ph_g_outputs_active) # PH_PROTO_OUT1_MOUSE_PS2
          => MouseRole(ph_g_outputs_active') # PH_PROTO_OUT1_MOUSE_PS2]_vars


(***************************************************************************)
(* The USB keyboard backend under a key session: specification SpecKbd.    *)
(* The command handler is called with the key events of the far end; the   *)
(* far end takes unused key codes in ascending order.                      *)
(***************************************************************************)
MaxKeyEvents == 9                       \* key events of a session

\* the key codes of the session (usages 4 .. 11, regular keys)
KeyCodes == 1 .. 8

\* the phase of the rollover scenario after the handler saw (key, state):
\* "overflowed" once a new key was pressed with no slot empty, "freed" when
\* after that a held key is released from a full array, "refilled" when the
\* event changing the array after that is the press of a key not held
rollover_next(key, state) ==
    LET held == key \in HeldKeys(kbd_keys)
        full == Slots(kbd_keys, 0) = {}
    IN  IF kbd_iface < 0 \/ state = held THEN rollover
        ELSE IF state /\ full THEN "overflowed"
        ELSE IF state /\ rollover = "freed" THEN "refilled"
        ELSE IF ~state /\ full /\ rollover # "idle" THEN "freed"
        ELSE IF rollover = "idle" THEN "idle"
        ELSE "overflowed"

\* ph_cmd_kbd_send_key(args) with args = {code, st}
KbdSendKey(code, st) ==
    /\ fw = "pico"
    /\ key_events < MaxKeyEvents
    /\ IF st # 0 THEN code <= keys_used + 1 ELSE code <= keys_used
    /\ ph_cmd_kbd_send_key(<<code, st, 0, 0>>)
    /\ key_events' = key_events + 1
    /\ keys_used' = IF code > keys_used THEN code ELSE keys_used
    /\ rollover' = rollover_next(ph_usb_keymap(code), st # 0)
    /\ UNCHANGED held_buttons
    /\ out' = <<>>
    /\ dispatched' = "key"
    /\ cb' = "none"
    /\ rebooted' = FALSE
    /\ req' = <<>>
    /\ UNCHANGED <<runVars, loopVars, outVars, engVars, comVars, last_resp, usbEnvVars,
                   ps2EnvVars>>

KbdConfigs == {<<"pico", PicoStraps(FALSE, FALSE), NvBlank("pico")>>}

InitKbd == InitOf(KbdConfigs, {}, {})

NextKbd ==
    \/ UsbEnumerate
    \/ \E code \in KeyCodes, st \in {0, 1} : KbdSendKey(code, st)

SpecKbd == InitKbd /\ [][NextKbd]_vars

\* C10: a key event leaves at most six regular keys held; the release of a
\* held key removes just that key; the press of a key not held, with a slot
\* empty, adds just that key, so that after an overflow (a seventh key
\* pressed on six held) and the release of a held key, a new key is held
\* together with the remaining five
C10_SixKeyRollover ==
    [][\A code \in KeyCodes, st \in {0, 1} :
          KbdSendKey(code, st) /\ kbd_iface >= 0 =>
             LET key == ph_usb_keymap(code)
                 H   == HeldKeys(kbd_keys)
                 H1  == HeldKeys(kbd_keys')
             IN  /\ Cardinality(H1) <= 6
                 /\ st = 0 /\ key \in H => H1 = H \ {key}
                 /\ st # 0 /\ key \notin H /\ Cardinality(H) < 6 => H1 = H \cup {key}
                 /\ rollover' = "refilled" /\ rollover = "freed" =>
                       /\ Cardinality(H) = 5
                       /\ H1 = H \cup {key}
                       /\ Cardinality(H1) = 6]_vars

\* C10 witness: eight distinct keys were pressed, the seventh on a full
\* array; a held key was released and the eighth key is now held with five
\* others
C10_Witness ==
    /\ rollover = "refilled"
    /\ keys_used = 8
    /\ ph_usb_keymap(8) \in HeldKeys(kbd_keys)
    /\ Cardinality(HeldKeys(kbd_keys)) = 6

\* C11: the press of a regular key not held, on six held keys, leaves the
\* held keys as they were (the seventh key is dropped); the press of a
\* modifier sets its bit of the mask and leaves the held keys alone
C11_SeventhKeyDropped ==
    [][\A code \in KeyCodes :
          KbdSendKey(code, 1) /\ kbd_iface >= 0 =>
             LET key == ph_usb_keymap(code)
                 H   == HeldKeys(kbd_keys)
                 H1  == HeldKeys(kbd_keys')
             IN  /\ ~IsModifier(key) /\ key \notin H /\ Cardinality(H) = 6 => H1 = H
                 /\ IsModifier(key) =>
                       /\ H1 = H
                       /\ HasBit(kbd_mods', 2 ^ (key % 8))]_vars


(***************************************************************************)
(* A key event over the link with the USB bus changing state:              *)
(* specification SpecKey.                                                  *)
(***************************************************************************)
KeyFrames ==
    {MkRequest(PH_PROTO_CMD_PING, 0, 0, 0, 0),
     MkRequest(PH_PROTO_CMD_KBD_KEY, 5, 1, 0, 0),
     MkRequest(PH_PROTO_CMD_KBD_KEY, 5, 0, 0, 0)}

InitKey == InitOf(KbdConfigs, KeyFrames, {8})

NextKey ==
    \/ HostSend
    \/ ComByte
    \/ ComData
    \/ UsbEnumerate
    \/ UsbHost
    \/ UsbTask

SpecKey == InitKey /\ [][NextKey]_vars

\* this step accepts the KEY request with payload (5, 1) while the USB
\* keyboard role is active, enumerated and online
KeyEAccepted ==
    /\ cb' = "data"
    /\ dispatched' = "key"
    /\ req'[3] = 5 /\ req'[4] = 1
    /\ PH_O_IS_KBD_USB
    /\ kbd_iface >= 0
    /\ ph_g_usb_kbd_online

\* C12: a KEY request (5, 1) accepted with the USB keyboard active,
\* enumerated and online is answered with one response whose status has
\* PONG_OK set and KEYBOARD_OFFLINE clear, and usage 8 is held afterwards
C12_KeyEHeld ==
    [][KeyEAccepted =>
          /\ Len(out') = 1
          /\ HasBit(out'[1][2], PH_PROTO_PONG_OK)
          /\ ~HasBit(out'[1][2], PH_PROTO_PONG_KBD_OFFLINE)
          /\ 8 \in HeldKeys(kbd_keys')]_vars

\* C12 witness: the request (5, 1) was answered online and key E is held
\* and in the report the bus took
C12_Witness ==
    /\ cb = "data"
    /\ dispatched = "key"
    /\ req[3] = 5 /\ req[4] = 1
    /\ kbd_iface >= 0
    /\ ph_g_usb_kbd_online
    /\ Len(out) = 1
    /\ HasBit(out[1][2], PH_PROTO_PONG_OK)
    /\ 8 \in HeldKeys(kbd_keys)
    /\ 8 \in HeldKeys(kbd_report[2])


(***************************************************************************)
(* The PS/2 mouse with its host: specification SpecMouse.                  *)
(***************************************************************************)
\* bytes the PS/2 host sends in a negotiation: Set-Sample-Rate and its
\* rates, Get-Device-ID, and the commands of Ps2MouseBytes
MouseHostBytes == Ps2MouseBytes \cup {243, 242, 200, 100, 80}

MouseConfigs == {<<"pico", PicoStraps(TRUE, FALSE), NvBlank("pico")>>}

InitMouse == InitOf(MouseConfigs, {}, {})

NextMouse ==
    \/ \E byte \in MouseHostBytes : Ps2MouseHostByte(byte)
    \/ Ps2MouseTask

SpecMouse == InitMouse /\ [][NextMouse]_vars

\* C13: six Set-Sample-Rate commands in a row with the rates 0xC8, 0x64,
\* 0x50, 0xC8, 0xC8, 0x50, the first one received with device type Standard
\* and no other command between them, leave the device type Wheel-3-Button
\* after the third and Wheel-5-Button after the sixth, and a Get-Device-ID
\* that follows the sixth is answered with 0xFA and the Wheel-5-Button byte
C13_WheelHandshake ==
    [][/\ ms_knock' = 3 => ms_type' = MS_TYPE_WHEEL_3
       /\ ms_knock' = 6 => ms_type' = MS_TYPE_WHEEL_5
       /\ ms_knock = 6 /\ ms_input_mode = 0 /\ Ps2MouseHostByte(242) =>
             ps2_mouse_qbytes' = <<250, MS_TYPE_WHEEL_5>>]_vars

\* C33: the handshake detector is a rolling window over the three most
\* recent Set-Sample-Rate arguments: whenever the device type is Standard and
\* the argument just received completes 0xC8, 0x64, 0x50 (ms_knock goes from
\* 2 to 3), the type becomes Wheel-3-Button, whatever Set-Sample-Rate
\* arguments were received before those three
C33_RollingWindow ==
    [][ms_knock = 2 /\ ms_knock' = 3 /\ ms_type = MS_TYPE_STANDARD =>
          ms_type' = MS_TYPE_WHEEL_3]_vars


(***************************************************************************)
(* The PS/2 keyboard with the key events of the far end, its host and its  *)
(* alarms: specification SpecPs2Kbd.                                       *)
(***************************************************************************)
\* key codes of the session: A, Insert, left Control, right Control, Pause
\* (usages 4, 73, 224, 228, 72)
Ps2Codes == {1, 67, 77, 81, 85}

\* bytes of the PS/2 host: Set-Typematic, Enable and Disable scanning, and
\* the argument it sends after Set-Typematic (rate 500000 us, delay 1000 ms)
TypematicBytes == {243, 244, 245}
TypematicArgs == {127}

\* the byte the PS/2 host sends next: the argument after a command that takes one
Ps2HostNext == IF ps2_kbd_last_rx = 243 THEN TypematicArgs ELSE TypematicBytes

\* ph_cmd_kbd_send_key(args) with args = {code, st}, called by the transport
\* task of the poll loop after the PS/2 task has run
Ps2SendKey(code, st) ==
    /\ fw = "pico"
    /\ ps2_tasked
    /\ ph_cmd_kbd_send_key(<<code, st, 0, 0>>)
    /\ ps2_tasked' = FALSE
    /\ out' = <<>>
    /\ dispatched' = "key"
    /\ cb' = "none"
    /\ rebooted' = FALSE
    /\ req' = <<>>
    /\ UNCHANGED <<cfgVars, outVars, engVars, comVars, last_resp, usbEnvVars,
                   ph_ps2_kbd_scanning, ph_ps2_kbd_repeat_us, ph_ps2_kbd_delay_ms,
                   ps2_kbd_blink, ps2_kbd_last_rx, ps2_kbd_rx_arg, ph_g_ps2_kbd_leds, ph_g_ps2_kbd_online,
                   ph_g_ps2_mouse_online, ms_mode, ms_type, ms_input_mode, ms_rate,
                   ms_magic_seq, ms_knock, ps2PhyVars, ps2_kbd_busy, ps2_mouse_busy>>

\* ph_cmd_kbd_send_key(args) for a press, with the alarm interrupt taken
\* inside ph_ps2_kbd_send_key, after the key was stored as the repeat key and
\* before the pending alarm is cancelled: ph_ps2_repeat_callback runs there,
\* enqueues the make code of the new repeat key and sets its alarm again
Ps2SendKeyPreempted(code) ==
    /\ fw = "pico"
    /\ ps2_tasked
    /\ PH_O_IS_KBD_PS2 /\ ~PH_O_IS_KBD_USB /\ ph_ps2_kbd_scanning
    /\ ps2_alarms # {}
    /\ LET key == ph_usb_keymap(code)
           mod == key >= 224 /\ key <= 231
           k   == key - 224
       IN  /\ mod \/ (key > 0 /\ key < ph_ps2_maparray /\ key # 72)
           /\ ph_ps2_kbd_repeat' = IF mod THEN k + 1 ELSE key
           /\ ph_ps2_kbd_repeatmod' = mod
           /\ ph_ps2_is_ctrl' =
                 IF key = 224 \/ key = 228
                 THEN (IF ph_ps2_is_ctrl + 1 > 2 THEN 0 ELSE ph_ps2_is_ctrl + 1)
                 ELSE ph_ps2_is_ctrl
           /\ ps2_arm_repeater
           /\ ps2_kbd_qbytes' =
                 q_add_all(ps2_kbd_qbytes,
                           (IF mod THEN (IF k > 2 /\ k # 5 THEN <<224>> ELSE <<>>)
                            ELSE maybe_e0(key))
                           \o repeat_make(IF mod THEN k + 1 ELSE key, mod)
                           \o <<IF mod THEN ph_ps2_mod2ps2[k + 1] ELSE ph_ps2_hid2ps2[key + 1]>>)
    /\ ps2_tasked' = FALSE
    /\ out' = <<>>
    /\ dispatched' = "key"
    /\ cb' = "none"
    /\ rebooted' = FALSE
    /\ req' = <<>>
    /\ UNCHANGED <<cfgVars, outVars, engVars, comVars, last_resp, usbVars,
                   ph_ps2_kbd_scanning, ph_ps2_kbd_repeat_us, ph_ps2_kbd_delay_ms,
                   ps2_kbd_blink, ps2_kbd_last_rx, ps2_kbd_rx_arg, ph_g_ps2_kbd_leds, ph_g_ps2_kbd_online,
                   ph_g_ps2_mouse_online, ps2_buttons, ms_mode, ms_type, ms_input_mode,
                   ms_rate, ms_magic_seq, ms_knock, ps2_mouse_qbytes, ps2PhyVars,
                   ps2_kbd_busy, ps2_mouse_busy>>

\* the PS/2 task of the poll loop runs far more often than an alarm is due
\* (every 33 ms at most): an alarm finds fewer bytes than this in the queue
MaxQueued == 3

Ps2KbdConfigs == {<<"pico", PicoStraps(TRUE, FALSE), NvBlank("pico")>>}

InitPs2Kbd == InitOf(Ps2KbdConfigs, {}, {})

NextPs2Kbd ==
    \/ \E code \in Ps2Codes, st \in {0, 1} : Ps2SendKey(code, st)
    \/ \E code \in Ps2Codes : Ps2SendKeyPreempted(code)
    \/ \E byte \in Ps2HostNext : Ps2KbdHostByte(byte)
    \/ Ps2KbdTask
    \/ Ps2BlinkAlarm
    \/ Len(ps2_kbd_qbytes) < MaxQueued /\ Ps2RepeatAlarm

SpecPs2Kbd == InitPs2Kbd /\ [][NextPs2Kbd]_vars

\* the usage of the key that repeats, 0 when none does
RepeatKey ==
    IF ph_ps2_kbd_repeat = 0 THEN 0
    ELSE IF ph_ps2_kbd_repeatmod THEN 223 + ph_ps2_kbd_repeat
    ELSE ph_ps2_kbd_repeat

\* usages whose scan code has the 0xE0 prefix, among those of the session and
\* the modifiers: Insert, left GUI, right Control, right Alt, right GUI
ExtendedKeys == {73, 227, 228, 230, 231}

\* the make code of a usage in scan code set 2
MakeCode(key) ==
    (IF key \in ExtendedKeys THEN <<224>> ELSE <<>>)
       \o <<IF key >= 224 THEN ph_ps2_mod2ps2[key - 223] ELSE ph_ps2_hid2ps2[key + 1]>>

\* this step is the key event (code, st), a press with or without the alarm
\* interrupt taken inside it / a run of the repeat callback on its own
KeyStep(code, st) ==
    /\ dispatched' = "key"
    /\ Ps2SendKey(code, st) \/ (st = 1 /\ Ps2SendKeyPreempted(code))
RepeatStep == dispatched' = "none" /\ ps2_tasked' = ps2_tasked /\ Ps2RepeatAlarm

\* C14: with scanning enabled the press of a key (Pause apart) makes it the
\* repeat key and arms one alarm with the configured typematic delay; every
\* run of the repeat callback while a key repeats enqueues that key's make
\* code (0xE0 first if extended) and sets the alarm again with the configured
\* repeat interval, and an alarm is pending as long as a key repeats; a key's
\* release leaves it not the repeat key, and only its press makes it the
\* repeat key again, so that no repeat of it is enqueued after its release
C14_Typematic ==
    [][/\ \A code \in Ps2Codes :
             LET key == ph_usb_keymap(code)
             IN  /\ KeyStep(code, 1) /\ ph_ps2_kbd_scanning /\ key # 72 =>
                       /\ RepeatKey' = key
                       /\ \E a \in ps2_alarms' :
                             /\ a.id = ph_ps2_kbd_repeater'
                             /\ a.wait = ph_ps2_kbd_delay_ms * 1000
                 /\ KeyStep(code, 0) => RepeatKey' # key
                 /\ RepeatKey' = key /\ RepeatKey # key => KeyStep(code, 1)
       /\ RepeatStep =>
             IF RepeatKey # 0
             THEN /\ Len(ps2_kbd_qbytes) + 2 <= QBYTES_SIZE =>
                        ps2_kbd_qbytes' = ps2_kbd_qbytes \o MakeCode(RepeatKey)
                  /\ \E a \in ps2_alarms' :
                        /\ a.id = ph_ps2_kbd_repeater'
                        /\ a.wait = ph_ps2_kbd_repeat_us
             ELSE ps2_kbd_qbytes' = ps2_kbd_qbytes
       /\ RepeatKey' # 0 => ps2_alarms' # {}]_vars

\* C14 witness: Insert repeats at the interval the host configured and the
\* callback has enqueued its make code twice since the task last ran
C14_Witness ==
    /\ RepeatKey = 73
    /\ ph_ps2_kbd_repeat_us = 500000
    /\ \E a \in ps2_alarms : a.id = ph_ps2_kbd_repeater /\ a.wait = 500000
    /\ ps2_kbd_qbytes = <<224, 112, 224, 112>>


(***************************************************************************)
(* Response frames, dispatch and the deferred reset (specification Spec).  *)
(***************************************************************************)
\* C15: every response frame written has 8 bytes, byte 0 = MAGIC_RESP, bytes
\* 4 and 5 = 0 and bytes 6..7 the big-endian CRC-16 of bytes 0..5; when the
\* status byte is not a PONG, bytes 2 and 3 are 0 as well
C15_ResponseFrame ==
    \A i \in 1 .. Len(out) :
       LET r == out[i]
       IN  /\ Len(r) = 8
           /\ r[1] = PH_PROTO_MAGIC_RESP
           /\ r[5] = 0 /\ r[6] = 0
           /\ ph_merge8_u16(r[7], r[8]) = ph_crc16(r, 6)
           /\ BitAnd(r[2], PH_PROTO_PONG_OK) = 0 => r[3] = 0 /\ r[4] = 0

\* C15 witness: an error response written while a reset is pending
C15_Witness ==
    /\ Len(out) = 1
    /\ out[1][2] \in ErrorCodes
    /\ reset_required
    /\ ph_merge8_u16(out[1][7], out[1][8]) = ph_crc16(out[1], 6)

\* the configuration and the backend state a PING must leave alone
pingFrame == <<errorFrame, ph_g_outputs_active, ph_g_outputs_avail, usbKbdVars, usbMouseVars>>

\* C16: a well-formed frame whose command is none of the known ones is
\* answered with INVALID_ERROR, and a well-formed PING is answered with one
\* response that has PONG_OK set and changes neither the configuration nor
\* the backends
C16_UnknownInvalidPingHarmless ==
    [][/\ cb' = "data" /\ ReqWellFormedNext
             /\ req'[2] \notin KnownCmds \cup {PH_PROTO_CMD_REPEAT}
          => Answered(PH_PROTO_RESP_INVALID_ERROR)'
       /\ cb' = "data" /\ ReqWellFormedNext /\ req'[2] = PH_PROTO_CMD_PING
          => /\ Len(out') = 1
             /\ HasBit(out'[1][2], PH_PROTO_PONG_OK)
             /\ UNCHANGED pingFrame]_vars

\* this step accepts a SET_KEYBOARD or SET_MOUSE request
SetAccepted == cb' = "data" /\ dispatched' \in {"set_kbd", "set_mouse"}

\* C17: the step that accepts SET_KEYBOARD or SET_MOUSE does not reset: it
\* writes one response with PONG_OK and RESET_REQUIRED set; a reset happens
\* only while a reset is required, and a reset becomes required only by a
\* step that accepts one of the two commands
C17_ResetAfterResponse ==
    [][/\ SetAccepted =>
             /\ ~rebooted'
             /\ Len(out') = 1
             /\ HasBit(out'[1][2], PH_PROTO_PONG_OK)
             /\ HasBit(out'[1][2], PH_PROTO_PONG_RESET_REQUIRED)
       /\ rebooted' => reset_required /\ ~SetAccepted
       /\ reset_required' /\ ~reset_required => SetAccepted]_vars

\* C17 witness: the Arduino board has restarted inside a later request, a
\* PING, after the response to the accepted command was written
C17_Witness ==
    /\ rebooted
    /\ fw = "arduino"
    /\ cb = "data"
    /\ req[2] = PH_PROTO_CMD_PING


\* C35: on the Pico, while a reset is pending no request is dispatched, no
\* response is written and the persisted record is not written again, until
\* the restart; the role byte stays the one set at boot, and the response to
\* the accepted SET_KEYBOARD / SET_MOUSE carries that byte, while the record
\* holds what the command stored
C35_OneRoleChangePerBoot ==
    [][fw = "pico" =>
          /\ reset_required =>
                /\ cb' = "none" /\ dispatched' = "none" /\ out' = <<>>
                /\ ~rebooted' => nv' = nv /\ last_resp' = last_resp
          /\ ~rebooted' => ph_g_outputs_active' = ph_g_outputs_active
          /\ SetAccepted =>
                /\ ~reset_required /\ reset_required'
                /\ Len(out') = 1
                /\ out'[1][3] = BitOr(PH_PROTO_OUT1_DYNAMIC, ph_g_outputs_active)
                /\ nv' = RunCfgHandler(dispatched', SubSeq(req', 3, 6))]_vars

\* C35 witness: the Pico has answered an accepted SET_KEYBOARD with the
\* keyboard role active since boot while the record holds another one
C35_Witness ==
    /\ fw = "pico"
    /\ reset_required
    /\ dispatched = "set_kbd"
    /\ out # <<>>
    /\ BitAnd(out[1][3], PH_PROTO_OUT1_KBD_MASK) = KbdRole(ph_g_outputs_active)
    /\ BitAnd(nv[2], PH_PROTO_OUT1_KBD_MASK) # KbdRole(ph_g_outputs_active)


(***************************************************************************)
(* The deferred reset under a far end that may fall silent: specification  *)
(* SpecReset. The firmware, the clock and the watchdog keep running; the   *)
(* far end is under no obligation to send.                                 *)
(***************************************************************************)
ResetFrames ==
    {MkRequest(PH_PROTO_CMD_SET_KBD, PH_PROTO_OUT1_KBD_USB, 0, 0, 0),
     MkRequest(PH_PROTO_CMD_PING, 0, 0, 0, 0),
     MkRequest(PH_PROTO_CMD_REPEAT, 0, 0, 0, 0),
     BadCrc(MkRequest(PH_PROTO_CMD_PING, 0, 0, 0, 0))}

InitReset ==
    InitOf({<<"pico", PicoStraps(FALSE, FALSE), NvBlank("pico")>>,
            <<"arduino", ArduinoBuild(FALSE, "abs"), NvBlank("arduino")>>},
           ResetFrames, {8})

NextReset ==
    \/ HostSend
    \/ ComByte
    \/ ComData
    \/ Tick
    \/ Reboot

\* ComByte or ComData as seen on the link: the transport task takes a byte
ComTakesByte == ComRuns /\ wire # <<>> /\ wire' \in {Tail(wire), <<>>}

\* Reboot as seen on the engine
WatchdogFires ==
    fw = "pico" /\ reset_required /\ reset_required' = FALSE /\ rebooted' = TRUE

SpecReset ==
    /\ InitReset
    /\ [][NextReset]_vars
    /\ WF_wire(ComTakesByte)
    /\ WF_<<reset_required, rebooted>>(WatchdogFires)
    /\ WF_vars(Tick)

\* C18: once a reset is required it eventually fires, whatever the far end
\* sends afterwards, nothing at all included
C18_ResetEventuallyFires == reset_required ~> rebooted


(***************************************************************************)
(* CLEAR_HID (specification Spec).                                         *)
(***************************************************************************)
\* C19: after an accepted CLEAR_HID no key, modifier or mouse button is held
\* on the USB backends, no button on the PS/2 mouse, and no key repeats on
\* the PS/2 keyboard
C19_ClearReleasesAll ==
    [][cb' = "data" /\ dispatched' = "clear" =>
          /\ HeldKeys(kbd_keys') = {}
          /\ kbd_mods' = 0
          /\ mouse_buttons' = 0
          /\ ps2_buttons' = 0
          /\ ph_ps2_kbd_repeat' = 0]_vars

\* C20: in every reachable state at most one typematic repeat alarm is
\* pending, and it is the one ph_ps2_kbd_repeater names: arming a repeat
\* cancels the pending alarm before it adds the new one
C20_OneRepeatAlarm ==
    /\ Cardinality(ps2_alarms) <= 1
    /\ \A a \in ps2_alarms : a.id = ph_ps2_kbd_repeater

\* C20 witness: Insert was pressed while the alarm of A was pending in its
\* repeat phase (the repeat of A is still queued before the make code of
\* Insert), and the one alarm pending is the new one, set for the delay
C20_Witness ==
    /\ ps2_kbd_qbytes = <<28, 224, 112>>
    /\ RepeatKey = 73
    /\ ps2_alarms = {[id |-> ph_ps2_kbd_repeater, wait |-> ph_ps2_kbd_delay_ms * 1000]}


(***************************************************************************)
(* The Pause key of the PS/2 keyboard (specification SpecPs2Kbd).          *)
(***************************************************************************)
\* the Pause sequence and the Break sequence of scan code set 2
PauseSeq == <<225, 20, 119, 225, 240, 20, 240, 119>>
BreakSeq == <<224, 126, 224, 240, 126>>

\* the key event (85, st) of the session is a Pause event handled by the
\* keyboard emulator
PauseStep(st) == ph_ps2_kbd_scanning /\ KeyStep(85, st)

HostCodes == {1, 77}

\* command bytes of the PS/2 host: Set-Typematic, Enable and Disable
\* scanning, Set-Defaults, Reset
HostCmdBytes == {243, 244, 245, 246, 255}

\* the byte the PS/2 host sends next: the argument after a command that takes one
Ps2HostCmdNext == IF ps2_kbd_last_rx = 243 THEN TypematicArgs ELSE HostCmdBytes

InitPs2Host == InitOf(Ps2KbdConfigs, {}, {})

NextPs2Host ==
    \/ \E code \in HostCodes, st \in {0, 1} : Ps2SendKey(code, st)
    \/ \E byte \in Ps2HostCmdNext : Ps2KbdHostByte(byte)
    \/ Ps2KbdTask
    \/ Ps2BlinkAlarm
    \/ Len(ps2_kbd_qbytes) < MaxQueued /\ Ps2RepeatAlarm

SpecPs2Host == InitPs2Host /\ [][NextPs2Host]_vars

\* this step is the receipt of the command byte / of the argument of cmd
HostCmdStep(byte) ==
    /\ ps2_kbd_last_rx' = byte
    /\ ps2_kbd_last_rx \notin {237, 243}
    /\ Ps2KbdHostByte(byte)
HostArgStep(cmd, byte) ==
    /\ ps2_kbd_last_rx' = byte
    /\ ps2_kbd_last_rx = cmd
    /\ Ps2KbdHostByte(byte)

\* how many times byte b is in the queue q
RECURSIVE CountOf(_, _)
CountOf(q, b) ==
    IF q = <<>> THEN 0 ELSE (IF Head(q) = b THEN 1 ELSE 0) + CountOf(Tail(q), b)

\* C22: a Reset received as a command byte leaves scanning enabled, the
\* typematic delay 500 ms, the repeat interval 91743 us and no repeat key,
\* leaves 0xFA alone in the transmit queue and arms one blink alarm; a 0xAA
\* is enqueued only by a run of the blink callback, one per alarm armed,
\* which is a later step than the one that enqueued the 0xFA
C22_Reset ==
    [][/\ HostCmdStep(255) =>
             /\ ph_ps2_kbd_scanning'
             /\ ph_ps2_kbd_delay_ms' = 500
             /\ ph_ps2_kbd_repeat_us' = 91743
             /\ RepeatKey' = 0
             /\ ps2_kbd_qbytes' = <<250>>
             /\ ps2_kbd_blink' = ps2_kbd_blink + 1
       /\ ps2_kbd_blink' > ps2_kbd_blink => HostCmdStep(255)
       /\ ps2_kbd_blink' < ps2_kbd_blink =>
             /\ ps2_kbd_blink' = ps2_kbd_blink - 1
             /\ ps2_kbd_qbytes' = Append(ps2_kbd_qbytes, 170)
       /\ CountOf(ps2_kbd_qbytes', 170) > CountOf(ps2_kbd_qbytes, 170) =>
             ps2_kbd_blink' < ps2_kbd_blink]_vars

\* C22 witness: the host has sent Reset after a key press had armed the
\* repeat alarm; no key repeats, the default delay is set, and the blink
\* callback has put 0xAA behind the 0xFA
C22_Witness ==
    /\ ps2_kbd_last_rx = 255
    /\ ps2_kbd_qbytes = <<250, 170>>
    /\ ps2_kbd_blink = 0
    /\ ph_ps2_kbd_delay_ms = 500
    /\ ph_ps2_kbd_repeat = 0
    /\ ps2_alarms # {}

\* C24: while scanning is disabled a key event enqueues nothing, arms no
\* alarm and leaves no repeat key, and a run of the repeat callback enqueues
\* nothing; scanning is enabled again only by the receipt of the command
\* 0xF4, 0xF6 or 0xFF; 0xF5 and 0xF6 received as commands set the typematic
\* delay to 500 ms and the repeat interval to 91743 us and leave no repeat
\* key, 0xF5 with scanning disabled and 0xF6 with scanning enabled
C24_ScanningDisabled ==
    [][/\ \A code \in HostCodes, st \in {0, 1} :
             ~ph_ps2_kbd_scanning /\ KeyStep(code, st) =>
                /\ ps2_kbd_qbytes' = ps2_kbd_qbytes
                /\ ps2_alarms' = ps2_alarms
                /\ ph_ps2_kbd_repeater' = ph_ps2_kbd_repeater
                /\ RepeatKey' = 0
       /\ ~ph_ps2_kbd_scanning /\ RepeatStep => ps2_kbd_qbytes' = ps2_kbd_qbytes
       /\ ~ph_ps2_kbd_scanning' => RepeatKey' = 0
       /\ ~ph_ps2_kbd_scanning /\ ph_ps2_kbd_scanning' =>
             HostCmdStep(244) \/ HostCmdStep(246) \/ HostCmdStep(255)
       /\ \A byte \in {245, 246} :
             HostCmdStep(byte) =>
                /\ ph_ps2_kbd_delay_ms' = 500
                /\ ph_ps2_kbd_repeat_us' = 91743
                /\ RepeatKey' = 0
                /\ ph_ps2_kbd_scanning' = (byte = 246)]_vars

\* C24 witness: a key event has been handled with scanning disabled by
\* 0xF5, after a key press had armed the repeat alarm: nothing is queued,
\* no key repeats, and the typematic values are the defaults
C24_Witness ==
    /\ ~ph_ps2_kbd_scanning
    /\ dispatched = "key"
    /\ ps2_kbd_last_rx = 245
    /\ ps2_kbd_qbytes = <<>>
    /\ ps2_alarms # {}
    /\ ph_ps2_kbd_repeat = 0
    /\ ph_ps2_kbd_delay_ms = 500
    /\ ph_ps2_kbd_repeat_us = 91743


(***************************************************************************)
(* The LEDs of the PS/2 keyboard: specification SpecPs2Leds.               *)
(***************************************************************************)
\* the arguments the host sends after Set-LEDs: every mask, and two bytes
\* greater than 7
LedArgs == (0 .. 7) \cup {8, 128}

\* bytes of the PS/2 host: Set-LEDs, Disable scanning, Reset
LedCmdBytes == {237, 245, 255}

\* the byte the PS/2 host sends next: the argument after Set-LEDs
LedHostNext == IF ps2_kbd_last_rx = 237 THEN LedArgs ELSE LedCmdBytes

InitPs2Leds == InitOf(Ps2KbdConfigs, {}, {})

NextPs2Leds ==
    \/ \E byte \in LedHostNext : Ps2KbdHostByte(byte)
    \/ Ps2KbdTask
    \/ Ps2BlinkAlarm

SpecPs2Leds == InitPs2Leds /\ [][NextPs2Leds]_vars

\* the status byte of the PONG response _send_response would build now
PongStatus == PongBytes(reset_required)[1]

\* the LED bits of a PONG status byte for the PS/2 LED mask m of Set-LEDs
PongLedsOf(m) ==
    IF m > 7 THEN 0
    ELSE (IF HasBit(m, 1) THEN PH_PROTO_PONG_SCROLL ELSE 0)
         + (IF HasBit(m, 2) THEN PH_PROTO_PONG_NUM ELSE 0)
         + (IF HasBit(m, 4) THEN PH_PROTO_PONG_CAPS ELSE 0)

PongLedMask == PH_PROTO_PONG_SCROLL + PH_PROTO_PONG_NUM + PH_PROTO_PONG_CAPS

ArgCmdBytes == {237, 243, 242, 244, 245}

\* argument bytes of the PS/2 host: Caps-Lock, a typematic setting, and the
\* values of the two command bytes that take an argument
ArgBytes == {4, 43, 237, 243}

\* the byte the PS/2 host sends next
ArgHostNext == IF rx_is_arg THEN ArgBytes ELSE ArgCmdBytes

InitPs2Args == InitOf(Ps2KbdConfigs, {}, {})

NextPs2Args ==
    \/ \E byte \in ArgHostNext : Ps2KbdHostByte(byte)
    \/ Ps2KbdTask
    \/ Ps2BlinkAlarm

SpecPs2Args == InitPs2Args /\ [][NextPs2Args]_vars

\* this step is the receipt of a byte from the PS/2 host
HostByteStep == ps2_kbd_qbytes' # <<>> /\ ps2_kbd_blink' = ps2_kbd_blink

\* the settings a byte from the host can change
KbdSettings ==
    <<ph_g_ps2_kbd_leds, ph_ps2_kbd_scanning, ph_ps2_kbd_repeat_us, ph_ps2_kbd_delay_ms>>

\* C37: only the byte that directly follows a Set-LEDs or Set-Typematic
\* command byte is taken as an argument (it sets the LEDs or the typematic
\* values and is acknowledged); the byte after an argument is taken as a
\* command whatever the argument was: Enable and Disable set scanning,
\* Identify is answered with 0xFA 0xAB 0x83, Set-LEDs and Set-Typematic are
\* acknowledged and change no setting
C37_OneArgument ==
    [][HostByteStep =>
          IF ps2_kbd_rx_arg'
          THEN /\ ps2_kbd_qbytes' = <<250>>
               /\ ph_ps2_kbd_scanning' = ph_ps2_kbd_scanning
               /\ IF ps2_kbd_last_rx = 237
                  THEN /\ ph_g_ps2_kbd_leds' =
                             ph_ps2_led2ps2[(IF ps2_kbd_last_rx' > 7 THEN 0
                                             ELSE ps2_kbd_last_rx') + 1]
                       /\ ph_ps2_kbd_repeat_us' = ph_ps2_kbd_repeat_us
                       /\ ph_ps2_kbd_delay_ms' = ph_ps2_kbd_delay_ms
                  ELSE /\ ph_ps2_kbd_repeat_us' =
                             ph_ps2_repeats[(ps2_kbd_last_rx' % 32) + 1]
                       /\ ph_ps2_kbd_delay_ms' =
                             ph_ps2_delays[((ps2_kbd_last_rx' \div 32) % 4) + 1]
                       /\ ph_g_ps2_kbd_leds' = ph_g_ps2_kbd_leds
          ELSE /\ ps2_kbd_last_rx' = 244 => ph_ps2_kbd_scanning'
               /\ ps2_kbd_last_rx' = 245 =>
                     KbdSettings' = <<0, FALSE, 91743, 500>>
               /\ ps2_kbd_last_rx' = 242 => ps2_kbd_qbytes' = <<250, 171, 131>>
               /\ ps2_kbd_last_rx' # 242 => ps2_kbd_qbytes' = <<250>>
               /\ ps2_kbd_last_rx' \notin {244, 245} => KbdSettings' = KbdSettings]_vars

(***************************************************************************)
(* The PS/2 mouse with its events: specification SpecPs2MouseEv.           *)
(***************************************************************************)
\* the buttons of the session, by their USB button code
EvButtons == {MOUSE_BUTTON_LEFT, MOUSE_BUTTON_RIGHT, MOUSE_BUTTON_MIDDLE}

\* the argument bytes of a MOUSE_BUTTON request for one button
ButtonArgs(btn, st) ==
    LET select == IF btn = MOUSE_BUTTON_LEFT THEN PH_PROTO_CMD_MOUSE_LEFT_SELECT
                  ELSE IF btn = MOUSE_BUTTON_RIGHT THEN PH_PROTO_CMD_MOUSE_RIGHT_SELECT
                  ELSE PH_PROTO_CMD_MOUSE_MIDDLE_SELECT
        state  == IF btn = MOUSE_BUTTON_LEFT THEN PH_PROTO_CMD_MOUSE_LEFT_STATE
                  ELSE IF btn = MOUSE_BUTTON_RIGHT THEN PH_PROTO_CMD_MOUSE_RIGHT_STATE
                  ELSE PH_PROTO_CMD_MOUSE_MIDDLE_STATE
    IN  <<select + (IF st THEN state ELSE 0), 0, 0, 0>>

\* deltas of the session as payload bytes: 0, 1, 127, -128, -1
RelDeltas == {0, 1, 127, 128, 255}
WheelDeltas == {1, 255}

\* what a mouse handler called by the transport task leaves alone
MouseEvFrame(h) ==
    /\ ps2_tasked' = FALSE
    /\ out' = <<>>
    /\ dispatched' = h
    /\ cb' = "none"
    /\ rebooted' = FALSE
    /\ req' = <<>>
    /\ UNCHANGED <<runVars, loopVars, key_events, keys_used, rollover, outVars, engVars,
                   comVars, last_resp, usbEnvVars, ph_ps2_kbd_scanning,
                   ph_ps2_kbd_repeat_us, ph_ps2_kbd_delay_ms, ps2_kbd_blink,
                   ps2_kbd_last_rx, ps2_kbd_rx_arg, ph_g_ps2_kbd_leds, ph_g_ps2_kbd_online,
                   ph_g_ps2_mouse_online, ms_mode, ms_type, ms_input_mode, ms_rate,
                   ms_magic_seq, ms_knock, ps2PhyVars, ps2_kbd_busy, ps2_mouse_busy>>

\* ph_cmd_mouse_send_button(args) for one button, called by the transport
\* task of the poll loop after the PS/2 task has run
Ps2MouseButton(btn, st) ==
    /\ fw = "pico"
    /\ ps2_tasked
    /\ ph_cmd_mouse_send_button(ButtonArgs(btn, st))
    /\ held_buttons' = IF st THEN held_buttons \cup {btn} ELSE held_buttons \ {btn}
    /\ MouseEvFrame("button")

\* ph_cmd_mouse_send_rel(args) with args = {dx, dy}
Ps2MouseRel(dx, dy) ==
    /\ fw = "pico"
    /\ ps2_tasked
    /\ ph_cmd_mouse_send_rel(<<dx, dy, 0, 0>>)
    /\ UNCHANGED held_buttons
    /\ MouseEvFrame("rel")

\* ph_cmd_mouse_send_wheel(args) with args = {h, v}
Ps2MouseWheel(v) ==
    /\ fw = "pico"
    /\ ps2_tasked
    /\ ph_cmd_mouse_send_wheel(<<0, v, 0, 0>>)
    /\ UNCHANGED held_buttons
    /\ MouseEvFrame("wheel")

\* commands of the PS/2 host: Set-Sample-Rate, Enable, Disable, Set-Defaults,
\* Set-Stream-Mode, Reset
MouseEvCmds == {243, 244, 245, 246, 234, 255}

\* the byte the PS/2 host sends next: after Set-Sample-Rate the next rate of
\* the wheel handshake
MouseEvHostNext ==
    IF ms_input_mode = 1 THEN {KnockRates[(ms_knock % Len(KnockRates)) + 1]}
    ELSE MouseEvCmds

InitPs2MouseEv == InitOf(MouseConfigs, {}, {})

NextPs2MouseEv ==
    \/ \E btn \in EvButtons, st \in BOOLEAN : Ps2MouseButton(btn, st)
    \/ \E dx \in RelDeltas, dy \in RelDeltas : Ps2MouseRel(dx, dy)
    \/ \E v \in WheelDeltas : Ps2MouseWheel(v)
    \/ \E byte \in MouseEvHostNext : Ps2MouseHostByte(byte)
    \/ Ps2MouseTask

SpecPs2MouseEv == InitPs2MouseEv /\ [][NextPs2MouseEv]_vars

\* the bytes a step has added to the queue of the PS/2 mouse
MousePacket == SubSeq(ps2_mouse_qbytes', Len(ps2_mouse_qbytes) + 1, Len(ps2_mouse_qbytes'))

EvTypeOk == held_buttons \subseteq EvButtons

\* a RelativeMove(dx, dy) handled while the mouse is streaming
RelStep(dx, dy) ==
    dispatched' = "rel" /\ ms_mode = MS_MODE_STREAMING /\ Ps2MouseRel(dx, dy)

\* the packet length of the device type
PacketLen == IF ms_type = MS_TYPE_STANDARD THEN 3 ELSE 4

\* C27 as stated: in streaming mode the packet of RelativeMove(dx, dy) has
\* bit 3 of byte 1 set, byte 2 equal to dx and byte 3 equal to dy, the X sign
\* flag 0x10 and the Y sign flag 0x20 set exactly when dx and dy are negative,
\* and has 3 bytes for type Standard and 4 bytes for the wheel types
C27_RelPacket ==
    [][\A dx \in RelDeltas, dy \in RelDeltas :
          RelStep(dx, dy) =>
             /\ Len(MousePacket) = PacketLen
             /\ HasBit(MousePacket[1], 8)
             /\ MousePacket[2] = dx
             /\ MousePacket[3] = dy
             /\ HasBit(MousePacket[1], 16) <=> S8(dx) < 0
             /\ HasBit(MousePacket[1], 32) <=> S8(dy) < 0]_vars

\* C27 amended: in streaming mode the packet of RelativeMove(dx, dy) has
\* bit 3 of byte 1 set, byte 2 equal to dx and byte 3 equal to the low 8 bits
\* of -dy (the Y axis is inverted), the X sign flag 0x10 set exactly when dx
\* is negative and the Y sign flag 0x20 set exactly when dy is positive, and
\* has 3 bytes for type Standard and 4 bytes for the wheel types
C27_RelPacketInvertedY ==
    [][\A dx \in RelDeltas, dy \in RelDeltas :
          RelStep(dx, dy) =>
             /\ Len(MousePacket) = PacketLen
             /\ HasBit(MousePacket[1], 8)
             /\ MousePacket[2] = dx
             /\ MousePacket[3] = (256 - dy) % 256
             /\ HasBit(MousePacket[1], 16) <=> S8(dx) < 0
             /\ HasBit(MousePacket[1], 32) <=> S8(dy) > 0]_vars

\* a RelativeMove(-1, 1) was handled with the wheel type negotiated: the
\* packet has four bytes, both sign flags, X 0xFF and Y 0xFF
C27_Witness ==
    /\ dispatched = "rel"
    /\ ms_mode = MS_MODE_STREAMING
    /\ ms_type = MS_TYPE_WHEEL_3
    /\ Len(ps2_mouse_qbytes) = 4
    /\ HasBit(ps2_mouse_qbytes[1], 16) /\ HasBit(ps2_mouse_qbytes[1], 32)
    /\ ps2_mouse_qbytes[2] = 255 /\ ps2_mouse_qbytes[3] = 255

\* a MOUSE_WHEEL event with vertical delta v handled while the mouse is
\* streaming with a wheel type negotiated
WheelStep(v) ==
    /\ dispatched' = "wheel"
    /\ ms_mode = MS_MODE_STREAMING
    /\ ms_type \in {MS_TYPE_WHEEL_3, MS_TYPE_WHEEL_5}
    /\ Ps2MouseWheel(v)

\* C28: in streaming mode with a wheel type negotiated a MOUSE_WHEEL event
\* with vertical delta v produces a 4-byte packet whose 4th byte carries v,
\* on the 5-button type in the low nibble with the state of buttons 4 and 5
\* in bits 4 and 5
C28_WheelPacket ==
    [][\A v \in WheelDeltas :
          WheelStep(v) =>
             /\ Len(MousePacket) = 4
             /\ IF ms_type = MS_TYPE_WHEEL_3 THEN MousePacket[4] = v
                ELSE /\ MousePacket[4] % 16 = v % 16
                     /\ HasBit(MousePacket[4], 16) <=> MOUSE_BUTTON_BACKWARD \in held_buttons
                     /\ HasBit(MousePacket[4], 32) <=> MOUSE_BUTTON_FORWARD \in held_buttons]_vars

\* a mouse event handled by the command layer
MouseEvStep == dispatched' \in {"button", "rel", "wheel"}

\* the button bits of byte 1 for a set of held buttons: left 1, right 2,
\* middle 4
ButtonBits(held) ==
    (IF MOUSE_BUTTON_LEFT \in held THEN 1 ELSE 0)
    + (IF MOUSE_BUTTON_RIGHT \in held THEN 2 ELSE 0)
    + (IF MOUSE_BUTTON_MIDDLE \in held THEN 4 ELSE 0)

\* C26: data reporting is enabled by 0xF4 and disabled by 0xF5, 0xF6, 0xEA and
\* 0xFF and by nothing else; a mouse event enqueues nothing while reporting
\* is disabled; every packet enqueued carries in its button bits the buttons
\* pressed and not released so far, those pressed or released while
\* reporting was disabled included
C26_ReportingOnly ==
    [][/\ dispatched' = "none" /\ ms_input_mode = 0 =>
             \A byte \in MouseEvCmds :
                Ps2MouseHostByte(byte) =>
                   ms_mode' = IF byte = 244 THEN MS_MODE_STREAMING
                              ELSE IF byte \in {245, 246, 234, 255} THEN MS_MODE_IDLE
                              ELSE ms_mode
       /\ MouseEvStep /\ ms_mode # MS_MODE_STREAMING =>
             ps2_mouse_qbytes' = ps2_mouse_qbytes
       /\ MouseEvStep /\ MousePacket # <<>> =>
             BitAnd(MousePacket[1], 7) = ButtonBits(held_buttons')]_vars

\* the bit of byte 1 that carries a button: left bit 0, right bit 1, middle
\* bit 2
ButtonBit(btn) ==
    IF btn = MOUSE_BUTTON_LEFT THEN 1 ELSE IF btn = MOUSE_BUTTON_RIGHT THEN 2 ELSE 4

\* C39: in streaming mode, with the USB button masks as button codes (left 1,
\* right 2, middle 4), every packet emitted after a press of the left, right
\* or middle button has bit 0, bit 1 or bit 2 of byte 1 set, and after the
\* matching release has it clear, whatever the other buttons are
C39_ButtonBits ==
    [][MouseEvStep /\ ms_mode = MS_MODE_STREAMING /\ MousePacket # <<>> =>
          \A btn \in EvButtons :
             HasBit(MousePacket[1], ButtonBit(btn)) <=> btn \in held_buttons']_vars

(***************************************************************************)
(* The online flags of the PS/2 devices: specification SpecPs2Online.      *)
(***************************************************************************)
\* bytes of the PS/2 hosts: Enable, Disable, Reset
OnlineHostBytes == {244, 245, 255}

InitPs2Online == InitOf(Ps2KbdConfigs, {}, {})

NextPs2Online ==
    \/ \E byte \in OnlineHostBytes : Ps2KbdHostByte(byte)
    \/ Ps2KbdTask
    \/ Ps2BlinkAlarm
    \/ \E byte \in OnlineHostBytes : Ps2MouseHostByte(byte)
    \/ Ps2MouseTask

SpecPs2Online == InitPs2Online /\ [][NextPs2Online]_vars

\* the offline bits of the PONG response _send_response would build now
KbdOfflineBit == HasBit(ph_cmd_get_offlines, PH_PROTO_PONG_KBD_OFFLINE)
MouseOfflineBit == HasBit(ph_cmd_get_offlines, PH_PROTO_PONG_MOUSE_OFFLINE)

\* a step of the PS/2 keyboard task, of the PS/2 mouse task
KbdTaskStep == Ps2KbdTask \/ \E byte \in OnlineHostBytes : Ps2KbdHostByte(byte)
MouseTaskStep == Ps2MouseTask \/ \E byte \in OnlineHostBytes : Ps2MouseHostByte(byte)

\* the keyboard half of C30: after every run of the PS/2 keyboard task
\* KEYBOARD_OFFLINE is clear if scanning is enabled and the physical layer
\* is not busy and set if the physical layer is busy, and stays so until
\* the task runs again
KbdBitFollows ==
    /\ ph_ps2_kbd_scanning /\ ps2_kbd_busy = 0 => ~KbdOfflineBit
    /\ ps2_kbd_busy # 0 => KbdOfflineBit

\* the mouse half of C30, for the PS/2 mouse task
MouseBitFollows ==
    /\ ~ps2_mouse_busy => ~MouseOfflineBit
    /\ ps2_mouse_busy => MouseOfflineBit

\* C30: with the PS/2 roles active the offline bits of a PONG follow the bus:
\* after every run of the PS/2 keyboard task KEYBOARD_OFFLINE is clear if
\* scanning is enabled and the physical layer is not busy, and set if it is
\* busy; after every run of the PS/2 mouse task MOUSE_OFFLINE is clear if the
\* physical layer is not busy and set if it is busy; no other step makes a
\* bit differ from the bus state it reflected
C30_OfflineBits ==
    [][/\ PH_O_IS_KBD_PS2 /\ KbdTaskStep => KbdBitFollows'
       /\ PH_O_IS_KBD_PS2 /\ KbdBitFollows => KbdBitFollows'
       /\ PH_O_IS_MOUSE_PS2 /\ MouseTaskStep => MouseBitFollows'
       /\ PH_O_IS_MOUSE_PS2 /\ MouseBitFollows => MouseBitFollows']_vars

(***************************************************************************)
(* The PS/2 physical layer of the keyboard: specification SpecPs2Phy       *)
(* (ph_ps2_phy.c).  The PIO state machine is the environment: its          *)
(* interrupt flags and FIFO levels are inputs of every task call.          *)
(***************************************************************************)
QPACKS_SIZE == 16                       \* queue_init(&this->qpacks, sizeof(u8) * 9, 16)
PACK_CELLS == 9                         \* u8 pack[9]

RECURSIVE Ones(_)
Ones(b) == IF b = 0 THEN 0 ELSE (b % 2) + Ones(b \div 2)

\* the parity loop of ph_ps2_phy_frame and ph_ps2_phy_task: 1 when the low
\* eight bits of the word hold an even number of ones
phy_parity(word) == (1 + Ones(word % 256)) % 2

\* ph_ps2_phy_frame(byte): start, data, parity and stop bit, inverted
ph_ps2_phy_frame(byte) == 2047 - (1024 + phy_parity(byte) * 512 + byte * 2)

\* the physical layer of the keyboard as ph_ps2_phy_task works on it
PhySt ==
    [qbytes |-> ps2_kbd_qbytes, qpacks |-> ps2_kbd_qpacks, sent |-> ps2_kbd_sent,
     last_tx |-> ps2_kbd_last_tx, busy |-> ps2_kbd_busy]

\* ph_ps2_phy_task, first part: the queued bytes become one pack, a length
\* cell n and the data cells 1..8 (a ninth byte is written past the buffer)
phy_pack(p) ==
    IF p.qbytes = <<>> THEN p
    ELSE LET pack == [n |-> Len(p.qbytes),
                      d |-> SubSeq(p.qbytes, 1, Min({Len(p.qbytes), PACK_CELLS - 1}))]
         IN  [p EXCEPT !.qbytes = <<>>,
                       !.qpacks = IF Len(p.qpacks) < QPACKS_SIZE THEN Append(p.qpacks, pack)
                                  ELSE p.qpacks]

\* ph_ps2_phy_task, second part: the interrupt flags of the state machine;
\* irq is raised while the host holds the bus, irq4 when it has cut short
\* the transmission of the frame handed over by the call before
phy_sense(p, irq, irq4) ==
    [p EXCEPT !.busy = IF irq THEN 1 ELSE BitAnd(p.busy, 2),
              !.sent = IF irq4 THEN (p.sent + 255) % 256 ELSE p.sent]

\* pack[k] read by the transmit part; g is what a cell holds that was never
\* written or lies past the buffer
pack_cell(pack, k, g) ==
    IF k = 0 THEN pack.n ELSE IF k <= Len(pack.d) THEN pack.d[k] ELSE g

\* ph_ps2_phy_task, third part: the next byte of the first pack is handed to
\* the state machine, or the pack is removed when all its bytes are sent;
\* tx are the frames put into the TX FIFO
phy_transmit(p, txe, g) ==
    IF p.qpacks # <<>> /\ txe /\ p.busy = 0
    THEN IF p.sent = p.qpacks[1].n
         THEN [qbytes |-> p.qbytes, qpacks |-> Tail(p.qpacks), sent |-> 0,
               last_tx |-> p.last_tx, busy |-> p.busy, tx |-> <<>>]
         ELSE LET sent == (p.sent + 1) % 256
                  byte == pack_cell(p.qpacks[1], sent, g)
              IN  [qbytes |-> p.qbytes, qpacks |-> p.qpacks, sent |-> sent,
                   last_tx |-> byte, busy |-> BitOr(p.busy, 2),
                   tx |-> <<ph_ps2_phy_frame(byte)>>]
    ELSE [qbytes |-> p.qbytes, qpacks |-> p.qpacks, sent |-> p.sent,
          last_tx |-> p.last_tx, busy |-> p.busy, tx |-> <<>>]

\* a receive part without the parity test
phy_rx_class_noparity(fifo) == IF fifo = 254 THEN "resend" ELSE "deliver"

\* ph_ps2_phy_task, what the receive part does with the 9-bit word fifo (data
\* and parity bit) taken from the RX FIFO
phy_rx_class(fifo) ==
    IF phy_parity(fifo) # fifo \div 256 THEN "nak"
    ELSE IF fifo = 254 THEN "resend"
    ELSE "deliver"

\* ph_ps2_phy_task, last part: the word of the RX FIFO is answered with 0xFE
\* or with the last byte sent again, or the queues are emptied and its byte
\* goes to the receive callback (rx)
phy_receive(p, rxe, fifo) ==
    LET none == [qbytes |-> p.qbytes, qpacks |-> p.qpacks, sent |-> p.sent,
                 last_tx |-> p.last_tx, busy |-> p.busy, tx |-> p.tx, rx |-> <<>>]
    IN  IF rxe THEN none
        ELSE IF phy_rx_class(fifo) = "nak"
        THEN [none EXCEPT !.tx = Append(p.tx, ph_ps2_phy_frame(254))]
        ELSE IF phy_rx_class(fifo) = "resend"
        THEN [none EXCEPT !.tx = Append(p.tx, ph_ps2_phy_frame(p.last_tx))]
        ELSE [none EXCEPT !.qbytes = <<>>, !.qpacks = <<>>, !.rx = <<fifo % 256>>]

\* ph_ps2_phy_task(this) with the inputs of the state machine: rxe says the
\* RX FIFO is empty, fifo is its word otherwise; rx is the byte passed to
\* the receive callback, if any
ph_ps2_phy_task(p0, irq, irq4, txe, rxe, fifo, g) ==
    CHOOSE r \in {phy_receive(p, rxe, fifo) :
                    p \in {phy_transmit(q, txe, g) :
                              q \in {phy_sense(phy_pack(p0), irq, irq4)}}} : TRUE

\* ph_ps2_kbd_task: ph_ps2_phy_task with ph_ps2_kbd_receive as its callback,
\* then the online flag follows scanning and the bus
Ps2PhyTask(irq, irq4, txe, rxe, fifo, g) ==
    /\ Ps2KbdRuns
    /\ \E r \in {ph_ps2_phy_task(PhySt, irq, irq4, txe, rxe, fifo, g)} :
          /\ ps2_kbd_sent' = r.sent
          /\ ps2_kbd_last_tx' = r.last_tx
          /\ ps2_kbd_busy' = r.busy
          /\ ps2_kbd_tx' = r.tx
          /\ ps2_kbd_rx' = IF rxe THEN <<>> ELSE <<fifo>>
          /\ ps2_kbd_qpacks' = r.qpacks
          /\ IF r.rx = <<>>
             THEN /\ ps2_kbd_qbytes' = r.qbytes
                  /\ UNCHANGED <<ps2_kbd_last_rx, ps2_kbd_rx_arg, ph_ps2_kbd_scanning, ph_ps2_kbd_repeat,
                                 ph_ps2_kbd_repeat_us, ph_ps2_kbd_delay_ms,
                                 ph_g_ps2_kbd_leds, ps2_kbd_blink>>
             ELSE /\ r.rx[1] = 255 => ps2_kbd_blink < MaxBlink
                  /\ ph_ps2_kbd_receive(r.rx[1], ps2_kbd_last_rx)
                  /\ ps2_kbd_last_rx' = r.rx[1]
                  /\ ps2_kbd_rx_arg' = rx_is_arg
          /\ ph_g_ps2_kbd_online' = (ph_ps2_kbd_scanning' /\ r.busy = 0)
    /\ ps2_tasked' = TRUE
    /\ EnvObs
    /\ UNCHANGED <<cfgVars, outVars, engVars, comVars, usbVars, ps2MouseVars,
                   ph_ps2_kbd_repeatmod, ph_ps2_kbd_repeater, ps2_alarms, ph_ps2_is_ctrl>>

\* words of the PS/2 host: Identify, Enable, Disable and Resend with their
\* parity bit; Identify, Disable and Resend with the wrong one
RxWords == {242, 244, 501, 254, 498, 245, 510}

\* what a cell of the stack holds that was never written
GarbageBytes == {0, 255}

\* the transmit part of this call reads such a cell
phy_reads_garbage(p0, irq, irq4, txe) ==
    \E p \in {phy_sense(phy_pack(p0), irq, irq4)} :
       /\ p.qpacks # <<>> /\ txe /\ p.busy = 0
       /\ p.sent # p.qpacks[1].n
       /\ (p.sent + 1) % 256 > Len(p.qpacks[1].d)

MaxSent == 5                            \* the send index is followed up to this value

InitPs2Phy == InitOf(Ps2KbdConfigs, {}, {})

NextPs2Phy ==
    \/ \E irq \in BOOLEAN, txe \in BOOLEAN, rxe \in BOOLEAN :
          \E irq4 \in IF ps2_kbd_tx = <<>> THEN {FALSE} ELSE BOOLEAN,
             fifo \in IF rxe THEN {0} ELSE RxWords :
             \E g \in IF phy_reads_garbage(PhySt, irq, irq4, txe) THEN GarbageBytes
                       ELSE {0} :
                ps2_kbd_sent <= MaxSent /\ Ps2PhyTask(irq, irq4, txe, rxe, fifo, g)
    \/ Ps2BlinkAlarm

SpecPs2Phy == InitPs2Phy /\ [][NextPs2Phy]_vars

PhyTypeOk == ps2_kbd_sent \in 0 .. 255 /\ ps2_kbd_busy \in 0 .. 3

\* the byte a frame carries
FrameByte(frame) == ((2047 - frame) \div 2) % 256

\* a 9-bit word with odd parity: the number of ones in it is odd
OddParity(word) == Ones(word) % 2 = 1

\* the session state of the keyboard emulator
KbdSession ==
    <<ph_ps2_kbd_scanning, ph_ps2_kbd_repeat, ph_ps2_kbd_repeatmod, ph_ps2_kbd_repeat_us,
      ph_ps2_kbd_delay_ms, ph_g_ps2_kbd_leds, ph_ps2_is_ctrl, ps2_kbd_blink>>

\* all bytes waiting in the transmit queues, sent or not
RECURSIVE PackBytes(_)
PackBytes(qpacks) == IF qpacks = <<>> THEN <<>> ELSE Head(qpacks).d \o PackBytes(Tail(qpacks))

QueuedBytes == PackBytes(ps2_kbd_qpacks) \o ps2_kbd_qbytes

\* a step of the keyboard task (the blink callback counts its alarm down)
PhyTaskStep == ps2_kbd_blink' >= ps2_kbd_blink

\* the data cells of the pack the transmit part works on: the first pack
\* waiting, or the one this call makes of the queued bytes
FirstPack ==
    IF ps2_kbd_qpacks # <<>> THEN Head(ps2_kbd_qpacks).d
    ELSE SubSeq(ps2_kbd_qbytes, 1, Min({Len(ps2_kbd_qbytes), PACK_CELLS - 1}))

\* a word that is not passed on leaves the previous-byte context and the
\* session state alone and does not empty the transmit queues: the bytes
\* waiting are those that waited, less the pack the transmit part of the
\* same call has removed with its send index at the end of the pack
RxKept ==
    /\ ps2_kbd_last_rx' = ps2_kbd_last_rx
    /\ KbdSession' = KbdSession
    /\ \/ QueuedBytes' = QueuedBytes
       \/ /\ ps2_kbd_sent' = 0
          /\ QueuedBytes = FirstPack \o QueuedBytes'

\* the byte of the frame handed to the bus before the last frame of this
\* call: a data frame of the same call, or else the byte of last_tx
SentBefore ==
    IF Len(ps2_kbd_tx') > 1 THEN FrameByte(ps2_kbd_tx'[Len(ps2_kbd_tx') - 1])
    ELSE ps2_kbd_last_tx

\* C29: a word taken from the host is passed to ph_ps2_kbd_receive only if
\* its parity is odd and it is not 0xFE (then the queues are emptied, the
\* command is answered and the word becomes last_rx); after a parity failure
\* the last frame handed to the bus carries 0xFE, after a received 0xFE it
\* carries again the byte handed to the bus before it; in both cases
\* last_rx, the session state and the bytes waiting for transmission are kept
C29_RxErrors ==
    [][PhyTaskStep /\ ps2_kbd_rx' # <<>> =>
          IF ~OddParity(ps2_kbd_rx'[1])
          THEN /\ RxKept
               /\ ps2_kbd_tx' # <<>>
               /\ FrameByte(ps2_kbd_tx'[Len(ps2_kbd_tx')]) = 254
          ELSE IF ps2_kbd_rx'[1] % 256 = 254
          THEN /\ RxKept
               /\ ps2_kbd_tx' # <<>>
               /\ FrameByte(ps2_kbd_tx'[Len(ps2_kbd_tx')]) = SentBefore
          ELSE /\ ps2_kbd_last_rx' = ps2_kbd_rx'[1] % 256
               /\ ps2_kbd_qbytes' # <<>>
               /\ ps2_kbd_qpacks' = <<>>]_vars

\* a Resend arrived while scanning was disabled and the acknowledge of the
\* Disable command was waiting: the call has handed the acknowledge to the
\* bus and handed it over again
C29_Witness ==
    /\ ps2_kbd_rx = <<254>>
    /\ ~ph_ps2_kbd_scanning
    /\ ps2_kbd_last_rx = 245
    /\ ps2_kbd_tx = <<ph_ps2_phy_frame(250), ph_ps2_phy_frame(250)>>
    /\ ps2_kbd_qpacks # <<>>

(***************************************************************************)
(* The poll loop of the Arduino firmware with the PS/2 keyboard of the AVR *)
(* build: specification SpecLoop (main.cpp, drivers-avr/ps2/hid.h).        *)
(***************************************************************************)
\* keymapPs2(code, &ps2_type, &ps2_code): the type is not PS2_KEY_TYPE_UNKNOWN
keymapPs2_known(code) == code >= 1 /\ code <= 111

\* key codes of the session: A, B and a code keymapPs2 does not know
LoopCodes == {1, 2, 112}

MaxLoopKeys == 6                        \* key events of a session

LoopConfigs == {<<"arduino", AvrBuild, NvBlank("arduino")>>}

\* what a step of the loop leaves alone
LoopFrame ==
    /\ out' = <<>>
    /\ cb' = "none"
    /\ rebooted' = FALSE
    /\ req' = <<>>
    /\ UNCHANGED <<runVars, rollover, held_buttons, outVars, engVars, comVars, last_resp,
                   usbVars, ps2Vars>>

\* loop(): _out.kbd->periodic(), _out.mouse->periodic(), _board->periodic()
LoopPeriodic ==
    /\ fw = "arduino"
    /\ loop_pc = "poll"
    /\ loop_pc' = "conn"
    /\ dispatched' = "none"
    /\ UNCHANGED <<key_events, keys_used, ps2_clock_low>>
    /\ LoopFrame

\* loop(): _conn->periodic() with no request to dispatch
LoopConnIdle ==
    /\ fw = "arduino"
    /\ loop_pc = "conn"
    /\ loop_pc' = "poll"
    /\ dispatched' = "none"
    /\ UNCHANGED <<key_events, keys_used, ps2_clock_low>>
    /\ LoopFrame

\* loop(): _conn->periodic() dispatches a KEY request to _cmdKeyEvent, which
\* calls sendKey of the keyboard driver: Ps2Keyboard::sendKey enters its
\* wait for the clock line when keymapPs2 knows the code
LoopKeyEvent(code, st) ==
    /\ fw = "arduino"
    /\ loop_pc = "conn"
    /\ key_events < MaxLoopKeys
    /\ loop_pc' = IF PH_O_IS_KBD_PS2 /\ keymapPs2_known(code) THEN "sendKey" ELSE "poll"
    /\ key_events' = key_events + 1
    /\ keys_used' = IF code > keys_used THEN code ELSE keys_used
    /\ dispatched' = "key"
    /\ UNCHANGED ps2_clock_low
    /\ LoopFrame

\* Ps2Keyboard::sendKey: while (digitalRead(HID_PS2_KBD_CLOCK_PIN) == 0) {};
\* the loop is left when the clock line is read high
sendKey_wait_over(clock_low) == ~clock_low

\* Ps2Keyboard::sendKey after its wait: the press or release is handed to the
\* PS/2 device library and the handler returns to the loop
LoopSendKeyReturn ==
    /\ fw = "arduino"
    /\ loop_pc = "sendKey"
    /\ sendKey_wait_over(ps2_clock_low)
    /\ loop_pc' = "poll"
    /\ dispatched' = "none"
    /\ UNCHANGED <<key_events, keys_used, ps2_clock_low>>
    /\ LoopFrame

\* the PS/2 host pulls the clock line low or lets it go
HostClock ==
    /\ ps2_clock_low' = ~ps2_clock_low
    /\ dispatched' = "none"
    /\ UNCHANGED <<key_events, keys_used, loop_pc>>
    /\ LoopFrame

InitLoop == InitOf(LoopConfigs, {}, {})

NextLoop ==
    \/ LoopPeriodic
    \/ LoopConnIdle
    \/ \E code \in LoopCodes, st \in {0, 1} : LoopKeyEvent(code, st)
    \/ LoopSendKeyReturn
    \/ HostClock

\* the processor runs the loop and a handler it has entered; the wait of
\* sendKey reads the line far more often than the host changes it, so it is
\* left if the line is high again and again
SpecLoop ==
    /\ InitLoop
    /\ [][NextLoop]_vars
    /\ WF_vars(LoopPeriodic)
    /\ WF_vars(LoopConnIdle \/ \E code \in LoopCodes, st \in {0, 1} : LoopKeyEvent(code, st))
    /\ SF_vars(LoopSendKeyReturn)

\* C21: every iteration of the poll loop terminates: whenever the loop is
\* inside an iteration, a command handler included, it comes back to its
\* start, also when the PS/2 host holds the clock line low for good
C21_LoopTerminates == (loop_pc # "poll") ~> (loop_pc = "poll")

LoopTypeOk == loop_pc \in {"poll", "conn", "sendKey"}

(***************************************************************************)
(* The packet buffer of the physical layer under the key events of         *)
(* SpecPs2Kbd.                                                             *)
(***************************************************************************)
\* the last index the loop of ph_ps2_phy_task writes in pack[] when it moves
\* the queue q: i is incremented before the write and the loop runs while
\* i < 9 and a byte can be removed
pack_write_index(q) == IF Len(q) < PACK_CELLS THEN Len(q) ELSE PACK_CELLS

\* C36: when the task moves the pending bytes into the packet buffer of 9
\* cells (0 .. 8), the write index never exceeds 8, whatever was queued
\* since the call before: the bytes waiting in any state are moved by the
\* next call
C36_PackIndexInBounds == pack_write_index(ps2_kbd_qbytes) <= PACK_CELLS - 1

(***************************************************************************)
(* Key releases on the PS/2 keyboard, the task of the poll loop and one    *)
(* command of the host: specification SpecPs2Break.                        *)
(***************************************************************************)
\* key codes of the session: A and Insert (break F0 1C and E0 F0 70)
BreakCodes == {1, 67}

\* the last byte of the break sequence of a key code
BreakLast(code) == ph_ps2_hid2ps2[ph_usb_keymap(code) + 1]

\* the far end releases a key when the bytes of the event before have gone
BreakSendKey(code) ==
    /\ ps2_kbd_qbytes = <<>> /\ ps2_kbd_qpacks = <<>>
    /\ Ps2SendKey(code, 0)

\* a call of the keyboard task while the bus is idle, the host silent and
\* no frame handed over waits for the state machine
BreakIdleTask == ps2_kbd_busy # 2 /\ Ps2PhyTask(FALSE, FALSE, TRUE, TRUE, 0, 0)

\* a call of the keyboard task while the state machine sends the frame that
\* was handed over: its interrupt flag is raised
BreakSendingTask == ps2_kbd_busy = 2 /\ Ps2PhyTask(TRUE, FALSE, TRUE, TRUE, 0, 0)

\* a call of the keyboard task while the host holds the bus or the state
\* machine is still sending
BreakBusyTask == \E irq \in BOOLEAN, txe \in BOOLEAN : Ps2PhyTask(irq, FALSE, txe, TRUE, 0, 0)

\* a call of the keyboard task that finds Enable (0xF4) in the RX FIFO; the
\* host sends it once
BreakHostTask ==
    /\ ps2_kbd_last_rx # 244
    /\ \E txe \in BOOLEAN : Ps2PhyTask(FALSE, FALSE, txe, FALSE, 244, 0)

InitPs2Break == InitOf(Ps2KbdConfigs, {}, {})

NextPs2Break ==
    \/ \E code \in BreakCodes : BreakSendKey(code)
    \/ BreakIdleTask
    \/ BreakSendingTask
    \/ BreakBusyTask
    \/ BreakHostTask
    \/ Ps2BlinkAlarm

\* the poll loop calls the task for ever; the state machine sends every
\* frame handed over, and the bus is idle again and again
SpecPs2Break ==
    /\ InitPs2Break /\ [][NextPs2Break]_vars
    /\ WF_vars(BreakIdleTask)
    /\ WF_vars(BreakSendingTask)
    /\ WF_vars(Ps2BlinkAlarm)

\* C38: with scanning enabled, the break sequence of every key release
\* accepted from the link is handed to the bus once the bus is idle, whatever
\* the host sends meanwhile: after the release has queued the sequence, its
\* last byte (the scan code) is eventually put into the TX FIFO
C38_BreakHandedOver ==
    \A code \in BreakCodes :
       (/\ dispatched = "key" /\ ph_ps2_kbd_scanning
        /\ ps2_kbd_qbytes # <<>>
        /\ ps2_kbd_qbytes[Len(ps2_kbd_qbytes)] = BreakLast(code))
       ~> (ps2_kbd_tx # <<>> /\ FrameByte(ps2_kbd_tx[1]) = BreakLast(code))


(***************************************************************************)
(* The USB keyboard report under a bus that comes and goes: specification  *)
(* SpecUsbSync. Key events arrive while the USB host makes the endpoint    *)
(* ready, not ready or suspended; the poll loop keeps calling ph_usb_task  *)
(* (Pico) or UsbKeyboard::periodic (AVR, built with                        *)
(* HID_USB_CHECK_ENDPOINT).                                                *)
(***************************************************************************)
\* logical key codes of the session: usages 4 and 5, and Control-Left (0xE0)
SyncCodes == {1, 2, 77}

AvrUsbBuild == [ArduinoBuild(FALSE, "abs") EXCEPT !.avr = TRUE]

SyncConfigs ==
    {<<"pico", PicoStraps(FALSE, FALSE), NvBlank("pico")>>,
     <<"arduino", AvrUsbBuild, NvBlank("arduino")>>}

\* the AVR firmware drives the target through UsbKeyboard
AvrKbdUsb ==
    fw = "arduino" /\ straps.avr /\ KbdRole(ph_g_outputs_active) = PH_PROTO_OUT1_KBD_USB

\* UsbKeyboard::_sendCurrent: _sent = false if isOffline(), else the result
\* of _kbd.send()
avr_send_current(mods1, keys1) ==
    /\ kbd_sent' = usb_ready
    /\ kbd_report' = IF usb_ready THEN <<mods1, keys1>> ELSE kbd_report

\* _kbd.add(usb_code): the key takes an empty slot of the boot report unless
\* it is there or no slot is empty
avr_add(keys, key) ==
    IF Slots(keys, key) # {} \/ Slots(keys, 0) = {} THEN keys
    ELSE [keys EXCEPT ![Min(Slots(keys, 0))] = key]

\* the observation the command handlers leave
KeyObs ==
    /\ out' = <<>>
    /\ dispatched' = "key"
    /\ cb' = "none"
    /\ rebooted' = FALSE
    /\ req' = <<>>
    /\ UNCHANGED last_resp

\* ph_cmd_kbd_send_key(args) on the Pico, any key of the session
SyncSendKey(code, st) ==
    /\ fw = "pico"
    /\ key_events < MaxKeyEvents
    /\ ph_cmd_kbd_send_key(<<code, st, 0, 0>>)
    /\ key_events' = key_events + 1
    /\ UNCHANGED <<keys_used, rollover, held_buttons>>
    /\ KeyObs
    /\ UNCHANGED <<runVars, loopVars, outVars, engVars, comVars, usbEnvVars, ps2EnvVars>>

\* UsbKeyboard::sendKey(code, state): the report of _kbd is updated, and
\* sent when add / remove report a change (the library may also report one
\* when the key was there already)
AvrSendKey(code, st) ==
    /\ AvrKbdUsb
    /\ key_events < MaxKeyEvents
    /\ LET key   == ph_usb_keymap(code)
           mods1 == IF IsModifier(key) THEN kbd_mods_update(kbd_mods, key, st # 0)
                    ELSE kbd_mods
           keys1 == IF IsModifier(key) THEN kbd_keys
                    ELSE IF st # 0 THEN avr_add(kbd_keys, key)
                    ELSE kbd_release(kbd_keys, key)
       IN  /\ key > 0
           /\ kbd_mods' = mods1
           /\ kbd_keys' = keys1
           /\ \E ret \in BOOLEAN :
                 /\ <<mods1, keys1>> # <<kbd_mods, kbd_keys>> => ret
                 /\ IF ret THEN avr_send_current(mods1, keys1)
                    ELSE UNCHANGED <<kbd_sent, kbd_report>>
    /\ key_events' = key_events + 1
    /\ UNCHANGED <<keys_used, rollover, held_buttons>>
    /\ KeyObs
    /\ UNCHANGED <<runVars, loopVars, outVars, engVars, comVars, usbEnvVars, usbMouseVars,
                   ps2Vars>>

\* UsbKeyboard::periodic, the part run every 50 ms
AvrPeriodic ==
    /\ AvrKbdUsb
    /\ IF ~kbd_sent \/ (usb_ready /\ ~kbd_prev_online)
       THEN avr_send_current(kbd_mods, kbd_keys)
       ELSE UNCHANGED <<kbd_sent, kbd_report>>
    /\ kbd_prev_online' = usb_ready
    /\ EnvObs
    /\ UNCHANGED <<cfgVars, outVars, engVars, comVars, usbMouseVars, kbd_iface, mouse_iface,
                   kbd_mods, kbd_keys, ph_g_usb_kbd_leds, ph_g_usb_kbd_online,
                   ph_g_usb_mouse_online, mouse_prev_online, usb_ready, usb_suspended,
                   ps2Vars>>

InitUsbSync == InitOf(SyncConfigs, {}, {})

NextUsbSync ==
    \/ UsbEnumerate
    \/ UsbHost
    \/ UsbTask
    \/ AvrPeriodic
    \/ \E code \in SyncCodes, st \in {0, 1} : SyncSendKey(code, st)
    \/ \E code \in SyncCodes, st \in {0, 1} : AvrSendKey(code, st)

\* the poll loop never stops calling the periodic part of the backend
SpecUsbSync ==
    InitUsbSync /\ [][NextUsbSync]_vars /\ WF_vars(UsbTask) /\ WF_vars(AvrPeriodic)

\* the held state of the backend, and the endpoint accepting a report
KbdCurrent == <<kbd_mods, kbd_keys>>
EndpointReady == usb_ready /\ ~usb_suspended

\* the keyboard backend that drives the target is the USB one
KbdUsbUp == IF fw = "pico" THEN kbd_iface >= 0 /\ PH_O_IS_KBD_USB ELSE AvrKbdUsb

\* the backend has seen the device offline: the online flag of CHECK_IFACE
\* is down (Pico), the last periodic check found the endpoint not ready (AVR)
SeenOffline == IF fw = "pico" THEN ~ph_g_usb_kbd_online ELSE ~kbd_prev_online

\* a step of the periodic part: not a key event, and neither the bus nor the
\* enumeration changed
PeriodicStep ==
    /\ dispatched' = "none"
    /\ usb_ready' = usb_ready /\ usb_suspended' = usb_suspended
    /\ kbd_iface' = kbd_iface
    /\ <<kbd_sent, kbd_report, kbd_prev_online, ph_g_usb_kbd_online>>'
           # <<kbd_sent, kbd_report, kbd_prev_online, ph_g_usb_kbd_online>>

MaxSpiFrames == 3                       \* requests the far end starts in a run

SpiFrames ==
    {MkRequest(PH_PROTO_CMD_PING, 0, 0, 0, 0),
     MkRequest(PH_PROTO_CMD_REPEAT, 0, 0, 0, 0)}

SpiConfigs ==
    {<<"pico", PicoStraps(FALSE, FALSE), NvBlank("pico")>>,
     <<"arduino", AvrUsbBuild, NvBlank("arduino")>>}

\* one byte m is clocked, the far end keeps w of its request to send and
\* has started n requests
SpiXfer(m, w, n) ==
    /\ \E s \in {spi_xfer(fw, SpiState, m)} :
          /\ buf' = s.inb
          /\ index' = Len(s.inb)
          /\ spi_out' = s.out
          /\ spi_out_index' = s.oi
          /\ spi_receiving' = s.rcv
          /\ spi_tx' = s.tx
          /\ spi_rx' = s.rx
          /\ spi_fresh' = IF Len(s.inb) = 8 /\ index < 8 THEN TRUE ELSE spi_fresh
    /\ wire' = w
    /\ spi_started' = n
    /\ EnvObs
    /\ UNCHANGED <<boardVars, keyVars, loopVars, outVars, engVars, since_last, spi_wr,
                   usbVars, ps2Vars>>

\* the far end sends the next byte of its request, the first one of a new
\* request if it has none under way
SpiMasterFrame ==
    IF wire # <<>> THEN SpiXfer(Head(wire), Tail(wire), spi_started)
    ELSE /\ spi_started < MaxSpiFrames
         /\ \E f \in peer_frames : SpiXfer(f[1], Tail(f), spi_started + 1)

\* the far end clocks a zero: it reads, or it has given up its request
SpiMasterIdle == SpiXfer(0, <<>>, spi_started)

\* ph_com_spi_task / Spi::periodic: _data_cb(_in_buf), up to the call of
\* ph_com_spi_write
SpiTask ==
    /\ ComRuns
    /\ spi_wr = 0
    /\ spi_out[1] = 0
    /\ index = 8
    /\ LET data == buf
           args == SubSeq(data, 3, 6)
       IN  \E h \in {request_handler(fw, data)},
              code \in {resolve_code(request_code(fw, data), prev_code)} :
             LET sets == h \in {"set_kbd", "set_mouse"}
                 rr   == reset_required \/ sets
                 age  == IF sets THEN 0 ELSE reset_age
             IN  /\ cb' = "data"
                 /\ req' = data
                 /\ dispatched' = h
                 /\ spi_fresh' = FALSE
                 /\ IF reset_fires(code, rr, age)
                    THEN /\ Boot(BootVals(fw, straps, RunCfgHandler(h, args)))
                         /\ out' = <<>>
                         /\ last_resp' = <<>>
                         /\ rebooted' = TRUE
                         /\ spi_out' = NoResponse
                         /\ spi_out_index' = 0
                         /\ spi_receiving' = FALSE
                         /\ spi_tx' = spi_tx_init(fw)
                         /\ spi_rx' = <<>>
                         /\ spi_wr' = 0
                         /\ UNCHANGED <<boardVars, keyVars, loopVars, spi_started>>
                    ELSE /\ nv' = RunCfgHandler(h, args)
                         /\ reset_required' = rr
                         /\ reset_age' = age
                         /\ prev_code' = code
                         /\ RunHidHandler(h, args)
                         /\ \E resp \in {Response(code, rr)} :
                               out' = <<resp>> /\ last_resp' = resp
                         /\ rebooted' = FALSE
                         /\ spi_wr' = 8
                         /\ UNCHANGED <<boardVars, keyVars, loopVars, ph_g_outputs_active,
                                        ph_g_outputs_avail, comVars, spi_out, spi_out_index,
                                        spi_receiving, spi_tx, spi_rx, spi_started,
                                        usbEnvVars, ps2EnvVars>>

\* ph_com_spi_write / Spi::write, one pass of the loop: bytes 7 down to 0
SpiWriteByte ==
    /\ spi_wr > 0
    /\ spi_out' = [spi_out EXCEPT ![spi_wr] = last_resp[spi_wr]]
    /\ spi_wr' = spi_wr - 1
    /\ EnvObs
    /\ UNCHANGED <<boardVars, keyVars, loopVars, outVars, engVars, comVars, spi_out_index,
                   spi_receiving, spi_tx, spi_rx, spi_fresh, spi_started, usbVars, ps2Vars>>

InitSpi == InitOf(SpiConfigs, SpiFrames, {})

NextSpi ==
    \/ SpiMasterFrame
    \/ SpiMasterIdle
    \/ SpiTask
    \/ SpiWriteByte

\* SpiTask as seen on the transport
SpiTaskSeen == ComRuns /\ spi_wr = 0 /\ spi_out[1] = 0 /\ index = 8 /\ spi_wr' = 8

\* the poll loop keeps running; the far end is under no obligation to clock
SpecSpi ==
    InitSpi /\ [][NextSpi]_vars /\ WF_spi_wr(SpiTaskSeen) /\ WF_vars(SpiWriteByte)

\* a response is being written, waits in the buffer or waits in the
\* transmitter to be clocked out
RespInFlight ==
    \/ spi_wr > 0
    \/ spi_out[1] # 0
    \/ \E i \in 1..Len(spi_tx) : spi_tx[i][2] > 0

\* the step stored a received byte
SpiStored == buf' # buf /\ buf' # <<>>

\* the entries the step put into the transmitter
SpiPut ==
    IF spi_tx' = spi_tx THEN <<>>
    ELSE IF fw = "pico" THEN SubSeq(spi_tx', Len(spi_tx), Len(spi_tx'))
    ELSE spi_tx'

\* C32: a frame is handed to the data callback only when it was completed
\* since the last call, and every completed frame is handed over; no
\* received byte is stored while a response is written, waits in the buffer
\* or is yet to be clocked out; and every response byte the interrupt
\* handler transmits is the byte of the response at its position, taken
\* after ph_com_spi_write has finished
C32_SpiHandshake ==
    /\ [][/\ cb' = "data" => spi_fresh /\ ~spi_fresh' /\ req' = buf /\ Len(buf) = 8
          /\ SpiStored => ~RespInFlight'
          /\ \A i \in 1..Len(SpiPut) :
                SpiPut[i][2] > 0 =>
                   /\ spi_wr = 0
                   /\ SpiPut[i][1] = last_resp[SpiPut[i][2]]]_vars
    /\ (spi_fresh ~> cb = "data")

\* a request was given up after 1 to 7 bytes, which the handler has stored
SpiTruncated == wire = <<>> /\ index \in 1..7

\* C40: a request given up after 1 to 7 bytes does not stay in the buffer
\* for good: unless the far end clocks the bus again, the timeout is
\* reported and the receive index is 0
C40_SpiTimeoutRecovers ==
    SpiTruncated ~> ((cb = "timeout" /\ index = 0) \/ ~SpiTruncated)

=============================================================================
